---- MODULE Spec2Model ----
(***************************************************************************)
(* Vehicle Information Service: the SignalManager actor (the engine), the  *)
(* per-subscription actors and the client sessions, with their mailboxes.  *)
(* Every handler of an actor is one atomic action; do_send appends to the  *)
(* receiving actor's mailbox, and is dropped when the receiver has stopped.*)
(***************************************************************************)
EXTENDS Integers, Sequences, FiniteSets, TLC

\* ---------------------------------------------------------------- bounds
MaxSubs == 2
MaxEvents == 3
MaxValue == 2
MaxMillis == 1
MaxSeconds == 2

\* ------------------------------------------------------------- universes
Sessions == {1, 2}

Consumers == {1}

\* Option<T>
None == <<>>
Some(x) == <<x>>
IsSome(o) == o # <<>>
Unwrap(o) == o[1]

\* serde_json::Value: non-negative integer numbers (the PosInt lane of
\* serde_json::Number) and one value that is not a number.
JNum(n) == [n |-> n, k |-> "Number"]
JStr == [n |-> 0, k |-> "String"]
Values == {JNum(n) : n \in 0..MaxValue} \cup {JStr}

NoFilterFields == [interval |-> None, range |-> None, min_change |-> None]
MinChangeFilter(k) == [NoFilterFields EXCEPT !.min_change = Some(k)]
IntervalFilter(t) == [NoFilterFields EXCEPT !.interval = Some(t)]
RangeFilter(below, above) ==
  [NoFilterFields EXCEPT !.range = Some([below |-> below, above |-> above])]

\* ------------------------------------------------------------ ActionPath
LowerChar(c) ==
  CASE c = "A" -> "a"
    [] c = "B" -> "b"
    [] OTHER -> c

ToLowercase(p) == [i \in 1..Len(p) |-> LowerChar(p[i])]

\* A map that files a path under its spelling
PathKeyCaseSensitive(p) == p

\* The key under which a HashMap<ActionPath, _> files a path: Hash and Eq
\* both go through to_lowercase.
PathKey(p) == ToLowercase(p)

\* ----------------------------------------------------------- SerdeNumber
\* A u64 is kept as four 16-bit limbs, most significant first.
Limb == 65536

SerdeNumber(n) == <<0, 0, 0, n>>

WrappingSubU64(a, b) ==
  LET d4 == a[4] - b[4]
      c4 == IF d4 < 0 THEN 1 ELSE 0
      d3 == a[3] - b[3] - c4
      c3 == IF d3 < 0 THEN 1 ELSE 0
      d2 == a[2] - b[2] - c3
      c2 == IF d2 < 0 THEN 1 ELSE 0
      d1 == a[1] - b[1] - c2
  IN  <<d1 % Limb, d2 % Limb, d3 % Limb, d4 % Limb>>

\* impl Sub for SerdeNumber, both operands u64
SerdeSub(a, b) == WrappingSubU64(a, b)

\* SerdeNumber::abs, is_u64 branch
SerdeAbs(a) == a

\* A strict order: a > b
SerdeGt(a, b) ==
  \E i \in 1..4 : /\ \A j \in 1..(i - 1) : a[j] = b[j]
                  /\ a[i] > b[i]

\* PartialOrd for SerdeNumber, both operands u64: a >= b
SerdeGe(a, b) ==
  \E i \in 1..5 : /\ \A j \in 1..(i - 1) : a[j] = b[j]
                  /\ i = 5 \/ a[i] > b[i]

SerdeLe(a, b) == SerdeGe(b, a)

\* ---------------------------------------------------------------- filter
Ok(b) == [err |-> FALSE, ok |-> b]
Err == [err |-> TRUE, ok |-> FALSE]

value_is_number(val) == val.k = "Number"

\* An interval gate that is always open
IntervalGateOpen(t, last_value, filters) == TRUE

\* Duration::from_millis(i) <= now - last.time
interval(t, last_value, filters) ==
  IF IsSome(last_value)
    THEN IF t >= Unwrap(last_value).time
           THEN IF IsSome(filters.interval)
                  THEN Unwrap(filters.interval) <= t - Unwrap(last_value).time
                  ELSE TRUE
           ELSE TRUE
    ELSE TRUE

is_in_filter_range(val, filters) ==
  IF IsSome(filters.range)
    THEN IF ~value_is_number(val)
           THEN Err
           ELSE LET range == Unwrap(filters.range)
                    num == SerdeNumber(val.n)
                    below == IF IsSome(range.below)
                               THEN SerdeLe(num, SerdeNumber(Unwrap(range.below)))
                               ELSE TRUE
                    above == IF IsSome(range.above)
                               THEN SerdeGe(num, SerdeNumber(Unwrap(range.above)))
                               ELSE TRUE
                IN  Ok(below /\ above)
    ELSE Ok(TRUE)

\* A min-change gate that lets every value pass a last value that is not a
\* number
is_min_change_after_number(val, last_value, filters) ==
  IF /\ IsSome(filters.min_change)
     /\ IsSome(last_value)
     /\ value_is_number(Unwrap(last_value).value)
    THEN IF ~value_is_number(val)
           THEN Err
           ELSE LET num == SerdeNumber(val.n)
                    as_number == SerdeNumber(Unwrap(last_value).value.n)
                IN  Ok(SerdeGe(SerdeAbs(SerdeSub(as_number, num)),
                               SerdeNumber(Unwrap(filters.min_change))))
    ELSE Ok(TRUE)

is_min_change(val, last_value, filters) ==
  IF IsSome(filters.min_change) /\ IsSome(last_value)
    THEN IF ~value_is_number(val) \/ ~value_is_number(Unwrap(last_value).value)
           THEN Err
           ELSE LET num == SerdeNumber(val.n)
                    as_number == SerdeNumber(Unwrap(last_value).value.n)
                IN  Ok(SerdeGe(SerdeAbs(SerdeSub(as_number, num)),
                               SerdeNumber(Unwrap(filters.min_change))))
    ELSE Ok(TRUE)

\* A decision that leaves the change gate out
matches_filters_only(val, last_value, filters_opt, t) ==
  IF IsSome(filters_opt)
    THEN LET filters == Unwrap(filters_opt)
             range_exp == is_in_filter_range(val, filters)
             min_change_exp == is_min_change(val, last_value, filters)
         IN  IF range_exp.err THEN Err
             ELSE IF min_change_exp.err THEN Err
             ELSE Ok(interval(t, last_value, filters)
                       /\ (range_exp.ok /\ min_change_exp.ok))
    ELSE Ok(TRUE)

matches(val, last_value, filters_opt, t) ==
  LET changed_exp == IF IsSome(last_value)
                       THEN val # Unwrap(last_value).value
                       ELSE TRUE
  IN  IF IsSome(filters_opt)
        THEN LET filters == Unwrap(filters_opt)
                 interval_exp == interval(t, last_value, filters)
                 range_exp == is_in_filter_range(val, filters)
                 min_change_exp == is_min_change(val, last_value, filters)
             IN  IF range_exp.err THEN Err
                 ELSE IF min_change_exp.err THEN Err
                 ELSE Ok(changed_exp /\ (interval_exp /\ (range_exp.ok /\ min_change_exp.ok)))
        ELSE Ok(changed_exp)


\* ------------------------------------------------------------- wire ids
\* A string on the wire is a sequence of characters. A UUID is written with
\* UuidLen hexadecimal digits (32 in uuid); the largest integer id, IntMax
\* (u64::MAX in std), has fewer decimal digits than that.
UuidLen == 3
IntMax == 10 ^ (UuidLen - 1) - 1
HexDigits == <<"0", "1", "2", "3", "4", "5", "6", "7", "8", "9",
               "a", "b", "c", "d", "e", "f">>
IsDecimalDigit(c) == \E i \in 1..10 : HexDigits[i] = c
IsHexDigit(c) == \E i \in 1..16 : HexDigits[i] = LowerChar(c)
DigitValue(c) == (CHOOSE i \in 1..16 : HexDigits[i] = LowerChar(c)) - 1

RECURSIVE DigitsValue(_, _)
DigitsValue(text, radix) ==
  IF text = <<>>
    THEN 0
    ELSE DigitsValue(SubSeq(text, 1, Len(text) - 1), radix) * radix
           + DigitValue(text[Len(text)])

RECURSIVE ValueDigits(_, _)
ValueDigits(x, radix) ==
  IF x < radix
    THEN <<HexDigits[x + 1]>>
    ELSE Append(ValueDigits(x \div radix, radix), HexDigits[(x % radix) + 1])

RECURSIVE PadLeft(_, _)
PadLeft(text, width) ==
  IF Len(text) >= width THEN text ELSE PadLeft(<<"0">> \o text, width)

\* uuid::Uuid::from_str and Uuid::to_string
UuidFromStr(text) ==
  IF Len(text) = UuidLen /\ \A i \in 1..Len(text) : IsHexDigit(text[i])
    THEN Ok(DigitsValue(text, 16))
    ELSE Err
UuidToString(u) == PadLeft(ValueDigits(u, 16), UuidLen)

\* str::parse of an integer (leading zeros are read, a value above IntMax
\* overflows) and its to_string
ParseInt(text) ==
  IF /\ text # <<>>
     /\ \A i \in 1..Len(text) : IsDecimalDigit(text[i])
     /\ DigitsValue(text, 10) <= IntMax
    THEN Ok(DigitsValue(text, 10))
    ELSE Err
IntToString(i) == ValueDigits(i, 10)

\* enum ReqID
ReqIDInt(i) == [lane |-> "Int", id |-> i]
ReqIDUUID(u) == [lane |-> "UUID", id |-> u]

\* A decoder that tries the integer before the UUID
DecodeReqIDIntegerFirst(text) ==
  IF ~ParseInt(text).err
    THEN Ok(ReqIDInt(ParseInt(text).ok))
    ELSE IF ~UuidFromStr(text).err
           THEN Ok(ReqIDUUID(UuidFromStr(text).ok))
           ELSE Err

\* Deserialize for ReqID: Uuid::from_str, else parse, else an error
DecodeReqID(text) ==
  IF ~UuidFromStr(text).err
    THEN Ok(ReqIDUUID(UuidFromStr(text).ok))
    ELSE IF ~ParseInt(text).err
           THEN Ok(ReqIDInt(ParseInt(text).ok))
           ELSE Err

\* Serialize for ReqID
EncodeReqID(rid) ==
  IF rid.lane = "Int" THEN IntToString(rid.id) ELSE UuidToString(rid.id)

\* enum SubscriptionID as one integer: the UUID u is u + 1, so that the
\* subscriptions the SignalManager mints are 1, 2, ..; the integer i >= 0 is
\* -(i + 1); 0 is no subscription id
SubscriptionIDInt(i) == 0 - (i + 1)
SubscriptionIDUUID(u) == u + 1

\* Deserialize for SubscriptionID
DecodeSubscriptionID(text) ==
  IF ~UuidFromStr(text).err
    THEN Ok(SubscriptionIDUUID(UuidFromStr(text).ok))
    ELSE IF ~ParseInt(text).err
           THEN Ok(SubscriptionIDInt(ParseInt(text).ok))
           ELSE Err

\* Serialize for SubscriptionID
EncodeSubscriptionID(sid) ==
  IF sid < 0 THEN IntToString(0 - sid - 1) ELSE UuidToString(sid - 1)

\* ------------------------------------------------------------------ state
VARIABLES
  mq,                              \* mailbox of the SignalManager actor
  signal_cache,                    \* PathKey -> Value
  addr_to_subscription_ids,        \* session -> Vec<SubscriptionID>
  path_to_subscription_id,         \* PathKey -> Vec<SubscriptionID>
  subscription_id_to_subscription, \* id -> (subscription addr, session, path)
  set_recipients,                  \* PathKey -> Recipient<Set>
  subs,                            \* id -> state of the Subscription actor
  subq,                            \* id -> mailbox of the Subscription actor
  session,                         \* session -> "open" | "stopped"
  inbox,                           \* session -> mailbox of the ClientSession actor
  out,                             \* session -> responses handed to ctx.text
  wire,                            \* session -> text frames written to the socket
  consumers,                       \* set recipient -> [alive, mailbox]
  now,                             \* system clock, milliseconds
  nreq,                            \* requests sent so far (the next requestId)
  nsub,                            \* subscribe requests sent so far
  nenv,                            \* updates and registrations sent so far
  updates                          \* the UpdateSignals handled so far, in order

registry == <<addr_to_subscription_ids, path_to_subscription_id,
              subscription_id_to_subscription>>
engine == <<signal_cache, registry, set_recipients>>
actors == <<subs, subq>>
clients == <<session, inbox, out, wire>>
counters == <<nreq, nsub, nenv>>
vars == <<mq, engine, actors, clients, consumers, now, counters, updates>>

\* One period of ctx.run_interval(Duration::from_secs(interval)), in ms
MillisPerSec == 1000
IntervalPeriod(i) == i * MillisPerSec

\* HashMap helpers
Has(m, k) == k \in DOMAIN m
Insert(m, k, v) == [x \in DOMAIN m \cup {k} |-> IF x = k THEN v ELSE m[x]]
Remove(m, k) == [x \in DOMAIN m \ {k} |-> m[x]]
GetOrEmpty(m, k) == IF Has(m, k) THEN m[k] ELSE <<>>

\* Vec helpers
Contains(v, x) == \E i \in 1..Len(v) : v[i] = x
Retain(v, x) == SelectSeq(v, LAMBDA y : y # x)
Elems(v) == {v[i] : i \in 1..Len(v)}

\* Messages of the SignalManager mailbox
Msg(type, client, rid, path, value, filters, sid) ==
  [filters |-> filters, value |-> value, type |-> type, path |-> path,
   client_addr |-> client, request_id |-> rid, subscription_id |-> sid]

\* Messages of a Subscription mailbox
NotifySubscriber(v) == [type |-> "NotifySubscriber", signal_value |-> Some(v)]
StopSubscription == [type |-> "StopSubscription", signal_value |-> None]

\* ActionSuccessResponse / ActionErrorResponse, as serialized to the client
NoError == [number |-> 0, reason |-> ""]
NOT_FOUND_INVALID_PATH == [number |-> 404, reason |-> "invalid_path"]
NOT_FOUND_INVALID_SUBSCRIPTION_ID == [number |-> 404, reason |-> "invalid_subscriptionId"]
BAD_REQUEST_FILTER_INVALID == [number |-> 400, reason |-> "filter_invalid"]
SERVICE_UNAVAILABLE == [number |-> 503, reason |-> "service_unavailable"]
UNAUTHORIZED_READ_ONLY == [number |-> 401, reason |-> "read_only"]

Success(action, rid, sid, value, ts) ==
  [ok |-> TRUE, value |-> value, action |-> action, requestId |-> rid,
   subscriptionId |-> sid, error |-> NoError, timestamp |-> ts]
Failure(action, rid, sid, error, ts) ==
  [ok |-> FALSE, value |-> None, action |-> action, requestId |-> rid,
   subscriptionId |-> sid, error |-> error, timestamp |-> ts]

\* Addr<ClientSession>::do_send: delivered to the mailbox of a running
\* session, dropped otherwise.
DoSendClient(box, s, m) ==
  IF session[s] = "open" THEN [box EXCEPT ![s] = Append(@, m)] ELSE box

\* A do_send that puts the message in front of the waiting ones
DoSendSubsFront(box, targets, m) ==
  [i \in DOMAIN box |->
     IF i \in targets /\ subs[i].running THEN <<m>> \o box[i] ELSE box[i]]

\* Addr<Subscription>::do_send to every actor in targets
DoSendSubs(box, targets, m) ==
  [i \in DOMAIN box |->
     IF i \in targets /\ subs[i].running THEN Append(box[i], m) ELSE box[i]]

unix_timestamp_ms == now

\* Requests, updates, registrations and stops so far: the events the
\* environment has put into the system
Events ==
  nreq + nenv + Cardinality({s \in Sessions : session[s] = "stopped"})
       + Cardinality({c \in Consumers : ~consumers[c].alive})

Init ==
  /\ mq = <<>>
  /\ signal_cache = <<>>
  /\ addr_to_subscription_ids = <<>>
  /\ path_to_subscription_id = <<>>
  /\ subscription_id_to_subscription = <<>>
  /\ set_recipients = <<>>
  /\ subs = <<>>
  /\ subq = <<>>
  /\ session = [s \in Sessions |-> "open"]
  /\ inbox = [s \in Sessions |-> <<>>]
  /\ out = [s \in Sessions |-> <<>>]
  /\ wire = [s \in Sessions |-> <<>>]
  /\ consumers = [c \in Consumers |->
                    [alive |-> TRUE, mailbox |-> <<>>, handled |-> None]]
  /\ now = 0
  /\ nreq = 0
  /\ nsub = 0
  /\ nenv = 0
  /\ updates = <<>>

\* ------------------------------------------------- ClientSession (router)
\* A dispatch that puts the request in front of the waiting ones
ClientSendFront(s, m) ==
  /\ session[s] = "open"
  /\ Events < MaxEvents
  /\ nreq' = nreq + 1
  /\ mq' = <<m>> \o mq
  /\ UNCHANGED <<engine, actors, clients, consumers, now, nenv, updates>>

\* StreamHandler::handle, ws::Message::Text carrying a decoded action
ClientSend(s, m) ==
  /\ session[s] = "open"
  /\ Events < MaxEvents
  /\ nreq' = nreq + 1
  /\ mq' = Append(mq, m)
  /\ UNCHANGED <<engine, actors, clients, consumers, now, nenv, updates>>

ClientSubscribe(s, p, f) ==
  /\ nsub < MaxSubs
  /\ nsub' = nsub + 1
  /\ ClientSend(s, Msg("Subscribe", s, Some(ReqIDInt(nreq + 1)), p, None, f, 0))

ClientUnsubscribe(s, id) ==
  /\ ClientSend(s, Msg("Unsubscribe", s, Some(ReqIDInt(nreq + 1)), <<>>, None, None, id))
  /\ UNCHANGED nsub

ClientUnsubscribeAll(s) ==
  /\ ClientSend(s, Msg("UnsubscribeAll", s, Some(ReqIDInt(nreq + 1)), <<>>, None, None, 0))
  /\ UNCHANGED nsub

ClientGet(s, p) ==
  /\ ClientSend(s, Msg("Get", s, Some(ReqIDInt(nreq + 1)), p, None, None, 0))
  /\ UNCHANGED nsub

ClientSet(s, p, v) ==
  /\ ClientSend(s, Msg("Set", s, Some(ReqIDInt(nreq + 1)), p, Some(v), None, 0))
  /\ UNCHANGED nsub

\* serde_json::to_string of a response: the ids become strings
to_string(frame) ==
  [frame EXCEPT
     !.requestId = IF IsSome(@) THEN Some(EncodeReqID(Unwrap(@))) ELSE None,
     !.subscriptionId = IF @ = 0 THEN None ELSE Some(EncodeSubscriptionID(@))]

\* ctx.text(serialized)
Text(s, frame) ==
  /\ out' = [out EXCEPT ![s] = Append(@, frame)]
  /\ wire' = [wire EXCEPT ![s] = Append(@, to_string(frame))]

\* enum Action: the variants, and the names serde accepts for each: the
\* camelCase name of rename_all and the two aliases
ActionVariants == {"Authorize", "GetMetadata", "Get", "Set", "Subscribe",
                   "Unsubscribe", "UnsubscribeAll"}
CamelCase(variant) ==
  CASE variant = "Authorize" -> "authorize"
    [] variant = "GetMetadata" -> "getMetadata"
    [] variant = "Get" -> "get"
    [] variant = "Set" -> "set"
    [] variant = "Subscribe" -> "subscribe"
    [] variant = "Unsubscribe" -> "unsubscribe"
    [] variant = "UnsubscribeAll" -> "unsubscribeAll"
AcceptedNames(variant) == {CamelCase(variant), variant}

\* The variant the "action" tag of a request selects
ActionVariant(tag) ==
  IF \E variant \in ActionVariants : tag \in AcceptedNames(variant)
    THEN Ok(CHOOSE variant \in ActionVariants : tag \in AcceptedNames(variant))
    ELSE Err

\* A text frame: json says whether it is a JSON object with the fields of
\* some action; the ids are strings
TextFrame(tag, rid, sid, path, value) ==
  [value |-> value, path |-> path, action |-> tag, requestId |-> rid,
   subscriptionId |-> sid, json |-> TRUE]
NotJson ==
  [value |-> None, path |-> <<>>, action |-> "", requestId |-> <<>>,
   subscriptionId |-> <<>>, json |-> FALSE]

\* serde_json::from_str::<Action>
from_str(txt) ==
  LET variant == ActionVariant(txt.action)
      request_id == DecodeReqID(txt.requestId)
      subscription_id == DecodeSubscriptionID(txt.subscriptionId)
  IN  IF \/ ~txt.json
         \/ variant.err
         \/ request_id.err
         \/ (variant.ok = "Unsubscribe" /\ subscription_id.err)
        THEN Err
        ELSE Ok([value |-> txt.value,
                 type |-> variant.ok,
                 path |-> txt.path,
                 request_id |-> request_id.ok,
                 subscription_id |-> IF variant.ok = "Unsubscribe"
                                       THEN subscription_id.ok
                                       ELSE 0])

\* From<StatusCode> for ActionError: the number and its canonical reason
NOT_IMPLEMENTED == [number |-> 501, reason |-> "Not Implemented"]
BAD_REQUEST == [number |-> 400, reason |-> "Bad Request"]

\* A deserialization error reported as a server fault
new_deserialization_error_internal ==
  [number |-> 500, reason |-> "Internal Server Error"]

new_deserialization_error == BAD_REQUEST

\* to_string(&err) of a bare ActionError: an object without action,
\* requestId and timestamp
ActionErrorFrame(error) == Failure("", None, 0, error, 0)

\* An error response that leaves the request id out
new_error_without_request_id(variant, request_id, error) ==
  Failure(CamelCase(variant), None, 0, error, unix_timestamp_ms)

\* new_authorize_error / new_get_metadata_error
new_error(variant, request_id, error) ==
  Failure(CamelCase(variant), Some(request_id), 0, error, unix_timestamp_ms)

\* StreamHandler<ws::Message>::handle, ws::Message::Text
SessionHandleText(s, txt) ==
  /\ session[s] = "open"
  /\ Events < MaxEvents
  /\ nreq' = nreq + 1
  /\ LET decoded == from_str(txt)
         action == decoded.ok
     IN  IF decoded.err
           THEN /\ Text(s, ActionErrorFrame(new_deserialization_error))
                /\ UNCHANGED <<mq, nsub>>
           ELSE IF action.type \in {"Authorize", "GetMetadata"}
             THEN /\ Text(s, new_error(action.type, action.request_id, NOT_IMPLEMENTED))
                  /\ UNCHANGED <<mq, nsub>>
             ELSE /\ action.type = "Subscribe" => nsub < MaxSubs
                  /\ nsub' = IF action.type = "Subscribe" THEN nsub + 1 ELSE nsub
                  /\ mq' = Append(mq, Msg(action.type, s, Some(action.request_id),
                                          action.path, action.value, None,
                                          action.subscription_id))
                  /\ UNCHANGED <<out, wire>>
  /\ UNCHANGED <<engine, actors, session, inbox, consumers, now, nenv, updates>>

\* A session that stops without sending the cleanup UnsubscribeAll
ClientCloseNoCleanup(s) ==
  /\ session[s] = "open"
  /\ Events < MaxEvents
  /\ session' = [session EXCEPT ![s] = "stopped"]
  /\ inbox' = [inbox EXCEPT ![s] = <<>>]
  /\ UNCHANGED <<mq, engine, actors, out, wire, consumers, now, counters, updates>>

\* ws::Message::Close: ctx.stop(), then Actor::stopped sends the cleanup
ClientClose(s) ==
  /\ session[s] = "open"
  /\ Events < MaxEvents
  /\ session' = [session EXCEPT ![s] = "stopped"]
  /\ inbox' = [inbox EXCEPT ![s] = <<>>]
  /\ mq' = Append(mq, Msg("UnsubscribeAll", s, None, <<>>, None, None, 0))
  /\ UNCHANGED <<engine, actors, out, wire, consumers, now, counters, updates>>

\* Handler<ActionSuccessResponse> / Handler<ActionErrorResponse>: ctx.text
SessionDeliver(s) ==
  /\ session[s] = "open"
  /\ inbox[s] # <<>>
  /\ Text(s, Head(inbox[s]))
  /\ inbox' = [inbox EXCEPT ![s] = Tail(@)]
  /\ UNCHANGED <<mq, engine, actors, session, consumers, now, counters, updates>>

\* --------------------------------------------------------------- AppState
EnvSend(m) ==
  /\ Events < MaxEvents
  /\ nenv' = nenv + 1
  /\ mq' = Append(mq, m)
  /\ UNCHANGED <<engine, actors, clients, consumers, now, nreq, nsub, updates>>

\* AppState::set_signal, called by a producer
set_signal(p, v) == EnvSend(Msg("UpdateSignal", 0, None, p, Some(v), None, 0))

\* AppState::add_set_recipient
add_set_recipient(p, c) == EnvSend(Msg("AddSetRecipient", c, None, p, None, None, 0))

\* ------------------------------------------------------ the set recipient
\* The actor behind a Recipient<Set> stops
ConsumerStop(c) ==
  /\ consumers[c].alive
  /\ Events < MaxEvents
  /\ consumers' = [consumers EXCEPT ![c].alive = FALSE, ![c].mailbox = <<>>]
  /\ UNCHANGED <<mq, engine, actors, clients, now, counters, updates>>

\* What a Handler<Set> may return: Ok(()) or a KnownError of its choice
SetResults == {NoError, UNAUTHORIZED_READ_ONLY}

\* Handler<Set> of the recipient returns result; the message came by
\* do_send, so the result goes nowhere
ConsumerHandleSet(c, result) ==
  /\ consumers[c].alive
  /\ consumers[c].mailbox # <<>>
  /\ consumers' = [consumers EXCEPT
                     ![c].mailbox = Tail(@),
                     ![c].handled = Some([request_id |-> Head(consumers[c].mailbox).request_id,
                                          result |-> result])]
  /\ UNCHANGED <<mq, engine, actors, clients, now, counters, updates>>


\* ---------------------------------------------------------- SignalManager
\* A step of the SignalManager takes the message at the head of its mailbox.
Handling(type) == mq # <<>> /\ Head(mq).type = type

\* A fan-out that notifies every registered subscription
FanOutEverySubscription(path) == DOMAIN subscription_id_to_subscription

\* A fan-out that reaches no subscription
FanOutNoSubscription(path) == {}

\* The subscriptions an UpdateSignal for path is fanned out to
FanOutTargets(path) ==
  {id \in Elems(GetOrEmpty(path_to_subscription_id, PathKey(path))) :
     Has(subscription_id_to_subscription, id)}

\* A cache that keeps the first value of a path
CacheInsertKeepFirst(cache, path, value) ==
  IF Has(cache, PathKey(path)) THEN cache ELSE Insert(cache, PathKey(path), value)

\* A cache that holds the latest path only
CacheInsertAlone(cache, path, value) == Insert(<<>>, PathKey(path), value)

\* self.signal_cache.insert(msg.path, msg.value)
CacheInsert(cache, path, value) == Insert(cache, PathKey(path), value)

\* Handler<UpdateSignal>
HandleUpdateSignal ==
  /\ Handling("UpdateSignal")
  /\ LET msg == Head(mq)
         value == Unwrap(msg.value)
     IN  /\ subq' = DoSendSubs(subq,
                      {subscription_id_to_subscription[id].subscription_addr :
                         id \in FanOutTargets(msg.path)},
                      NotifySubscriber(value))
         /\ signal_cache' = CacheInsert(signal_cache, msg.path, value)
         /\ updates' = Append(updates, [value |-> value, path |-> msg.path])
  /\ mq' = Tail(mq)
  /\ UNCHANGED <<registry, set_recipients, subs, clients, consumers, now, counters>>

\* A subscription that starts from the cached value of its path
NewSubscriptionSeeded(msg, subscription_id) ==
  [filters |-> msg.filters,
   path |-> msg.path,
   client_addr |-> msg.client_addr,
   subscription_id |-> subscription_id,
   running |-> TRUE,
   latest_signal_value |-> None,
   last_signal_value_client |->
     IF Has(signal_cache, PathKey(msg.path))
       THEN Some([time |-> now, value |-> signal_cache[PathKey(msg.path)]])
       ELSE None,
   interval_handle |->
     IF IsSome(msg.filters) /\ IsSome(Unwrap(msg.filters).interval)
       THEN Some(now + IntervalPeriod(Unwrap(Unwrap(msg.filters).interval)))
       ELSE None]

\* Subscription, as built by Handler<ClientMessage<Subscribe>>, and the
\* interval armed by Actor::started
NewSubscription(msg, subscription_id) ==
  [filters |-> msg.filters,
   path |-> msg.path,
   client_addr |-> msg.client_addr,
   subscription_id |-> subscription_id,
   running |-> TRUE,
   latest_signal_value |-> None,
   last_signal_value_client |-> None,
   interval_handle |->
     IF IsSome(msg.filters) /\ IsSome(Unwrap(msg.filters).interval)
       THEN Some(now + IntervalPeriod(Unwrap(Unwrap(msg.filters).interval)))
       ELSE None]

\* Uuid::new_v4(): an id no subscription had before
NewSubscriptionId == Cardinality(DOMAIN subs) + 1

\* A reply that does not carry the id of the new subscription
SubscribeResponseWithoutId(msg, subscription_id) ==
  Success("subscribe", msg.request_id, 0, None, unix_timestamp_ms)

\* The reply of Handler<ClientMessage<Subscribe>>
SubscribeResponse(msg, subscription_id) ==
  Success("subscribe", msg.request_id, subscription_id, None, unix_timestamp_ms)

\* Handler<ClientMessage<Subscribe>>
HandleSubscribe ==
  /\ Handling("Subscribe")
  /\ LET msg == Head(mq)
         subscription_id == NewSubscriptionId
         key == PathKey(msg.path)
     IN  /\ addr_to_subscription_ids' =
              Insert(addr_to_subscription_ids, msg.client_addr,
                     Append(GetOrEmpty(addr_to_subscription_ids, msg.client_addr),
                            subscription_id))
         /\ subs' = Insert(subs, subscription_id, NewSubscription(msg, subscription_id))
         /\ subq' = Insert(subq, subscription_id, <<>>)
         /\ subscription_id_to_subscription' =
              Insert(subscription_id_to_subscription, subscription_id,
                     [path |-> msg.path,
                      client_addr |-> msg.client_addr,
                      subscription_addr |-> subscription_id])
         /\ path_to_subscription_id' =
              Insert(path_to_subscription_id, key,
                     Append(GetOrEmpty(path_to_subscription_id, key), subscription_id))
         /\ inbox' = DoSendClient(inbox, msg.client_addr,
                                  SubscribeResponse(msg, subscription_id))
  /\ mq' = Tail(mq)
  /\ UNCHANGED <<signal_cache, set_recipients, session, out, wire, consumers, now,
                 counters, updates>>

\* An ownership check that only asks whether the subscription exists
OwnsAnySubscription(client, id) == Has(subscription_id_to_subscription, id)

\* An ownership check that passes for every id
OwnsEverySubscription(client, id) == TRUE

\* "Make sure this subscription actually belongs to the client"
OwnsSubscription(client, id) ==
  Contains(GetOrEmpty(addr_to_subscription_ids, client), id)

\* Handler<ClientMessage<Unsubscribe>>
HandleUnsubscribe ==
  /\ Handling("Unsubscribe")
  /\ LET msg == Head(mq)
         id == msg.subscription_id
     IN  IF ~OwnsSubscription(msg.client_addr, id)
           THEN /\ inbox' = DoSendClient(inbox, msg.client_addr,
                               Failure("unsubscribe", msg.request_id, id,
                                       NOT_FOUND_INVALID_SUBSCRIPTION_ID,
                                       unix_timestamp_ms))
                /\ UNCHANGED <<registry, actors>>
           ELSE IF Has(subscription_id_to_subscription, id)
             THEN LET entry == subscription_id_to_subscription[id]
                      key == PathKey(entry.path)
                  IN  /\ subscription_id_to_subscription' =
                           Remove(subscription_id_to_subscription, id)
                      /\ subq' = DoSendSubs(subq, {entry.subscription_addr},
                                            StopSubscription)
                      /\ addr_to_subscription_ids' =
                           IF Has(addr_to_subscription_ids, entry.client_addr)
                             THEN [addr_to_subscription_ids EXCEPT
                                     ![entry.client_addr] = Retain(@, id)]
                             ELSE addr_to_subscription_ids
                      /\ path_to_subscription_id' =
                           IF Has(path_to_subscription_id, key)
                             THEN [path_to_subscription_id EXCEPT ![key] = Retain(@, id)]
                             ELSE path_to_subscription_id
                      /\ inbox' = DoSendClient(inbox, msg.client_addr,
                                     Success("unsubscribe", msg.request_id, id, None,
                                             unix_timestamp_ms))
                      /\ UNCHANGED subs
             ELSE UNCHANGED <<registry, actors, inbox>>
  /\ mq' = Tail(mq)
  /\ UNCHANGED <<signal_cache, set_recipients, session, out, wire, consumers, now,
                 counters, updates>>

\* An UnsubscribeAll that is never answered
UnsubscribeAllNoResponse(msg) == None

\* if let Some(request_id) = msg.message.request_id: the response, if any
UnsubscribeAllResponse(msg) ==
  IF IsSome(msg.request_id)
    THEN Some(Success("unsubscribeAll", msg.request_id, 0, None, unix_timestamp_ms))
    ELSE None

\* Handler<ClientMessage<UnsubscribeAll>>
HandleUnsubscribeAll ==
  /\ Handling("UnsubscribeAll")
  /\ LET msg == Head(mq)
         ids == GetOrEmpty(addr_to_subscription_ids, msg.client_addr)
         found == {id \in Elems(ids) : Has(subscription_id_to_subscription, id)}
     IN  /\ subq' = DoSendSubs(subq,
                      {subscription_id_to_subscription[id].subscription_addr : id \in found},
                      StopSubscription)
         /\ path_to_subscription_id' =
              [key \in DOMAIN path_to_subscription_id |->
                 SelectSeq(path_to_subscription_id[key],
                           LAMBDA sub :
                             ~(sub \in found /\
                               PathKey(subscription_id_to_subscription[sub].path) = key))]
         /\ inbox' = IF IsSome(UnsubscribeAllResponse(msg))
                       THEN DoSendClient(inbox, msg.client_addr,
                                         Unwrap(UnsubscribeAllResponse(msg)))
                       ELSE inbox
  /\ mq' = Tail(mq)
  /\ UNCHANGED <<signal_cache, addr_to_subscription_ids,
                 subscription_id_to_subscription, set_recipients, subs, session,
                 out, wire, consumers, now, counters, updates>>

\* Handler<ClientMessage<Get>>
HandleGet ==
  /\ Handling("Get")
  /\ LET msg == Head(mq)
     IN  inbox' = DoSendClient(inbox, msg.client_addr,
                    IF Has(signal_cache, PathKey(msg.path))
                      THEN Success("get", msg.request_id, 0,
                                   Some(signal_cache[PathKey(msg.path)]),
                                   unix_timestamp_ms)
                      ELSE Failure("get", msg.request_id, 0, NOT_FOUND_INVALID_PATH,
                                   unix_timestamp_ms))
  /\ mq' = Tail(mq)
  /\ UNCHANGED <<engine, actors, session, out, wire, consumers, now, counters, updates>>

\* A recipient that takes every message
RecipientAlwaysAccepts(recipient) == TRUE

\* recipient.do_send(set_message) is Ok unless the recipient's mailbox is
\* closed
RecipientAccepts(recipient) == consumers[recipient].alive

\* A Set that also files the value in the signal cache
HandleSetWritesCache ==
  /\ Handling("Set")
  /\ LET msg == Head(mq)
         key == PathKey(msg.path)
     IN  IF Has(set_recipients, key) /\ RecipientAccepts(set_recipients[key])
           THEN /\ consumers' = [consumers EXCEPT ![set_recipients[key]].mailbox =
                                   Append(@, [value |-> Unwrap(msg.value),
                                              path |-> msg.path,
                                              request_id |-> msg.request_id])]
                /\ inbox' = DoSendClient(inbox, msg.client_addr,
                               Success("set", msg.request_id, 0, None,
                                       unix_timestamp_ms))
                /\ signal_cache' = CacheInsert(signal_cache, msg.path, Unwrap(msg.value))
           ELSE /\ inbox' = DoSendClient(inbox, msg.client_addr,
                               Failure("set", msg.request_id, 0,
                                       IF Has(set_recipients, key)
                                         THEN SERVICE_UNAVAILABLE
                                         ELSE NOT_FOUND_INVALID_PATH,
                                       unix_timestamp_ms))
                /\ UNCHANGED <<consumers, signal_cache>>
  /\ mq' = Tail(mq)
  /\ UNCHANGED <<registry, set_recipients, actors, session, out, wire, now, counters,
                 updates>>

\* Handler<ClientMessage<Set>>
HandleSet ==
  /\ Handling("Set")
  /\ LET msg == Head(mq)
         key == PathKey(msg.path)
     IN  IF Has(set_recipients, key)
           THEN LET recipient == set_recipients[key]
                IN  IF ~RecipientAccepts(recipient)
                      THEN /\ inbox' = DoSendClient(inbox, msg.client_addr,
                                          Failure("set", msg.request_id, 0,
                                                  SERVICE_UNAVAILABLE, unix_timestamp_ms))
                           /\ UNCHANGED consumers
                      ELSE /\ consumers' = [consumers EXCEPT ![recipient].mailbox =
                                              Append(@, [value |-> Unwrap(msg.value),
                                                         path |-> msg.path,
                                                         request_id |-> msg.request_id])]
                           /\ inbox' = DoSendClient(inbox, msg.client_addr,
                                          Success("set", msg.request_id, 0, None,
                                                  unix_timestamp_ms))
           ELSE /\ inbox' = DoSendClient(inbox, msg.client_addr,
                               Failure("set", msg.request_id, 0, NOT_FOUND_INVALID_PATH,
                                       unix_timestamp_ms))
                /\ UNCHANGED consumers
  /\ mq' = Tail(mq)
  /\ UNCHANGED <<engine, actors, session, out, wire, now, counters, updates>>

\* Handler<AddSetRecipient>
HandleAddSetRecipient ==
  /\ Handling("AddSetRecipient")
  /\ LET msg == Head(mq)
     IN  set_recipients' = Insert(set_recipients, PathKey(msg.path), msg.client_addr)
  /\ mq' = Tail(mq)
  /\ UNCHANGED <<signal_cache, registry, actors, clients, consumers, now,
                 counters, updates>>

\* ----------------------------------------------------- Subscription actor
\* Subscription::send_client_notification: the new actor state and the
\* frame sent to the client, if any
NotificationResult(sub, signal_value) ==
  matches(signal_value, sub.last_signal_value_client, sub.filters, now)

\* A notification that always records the value as sent
AfterNotificationAlwaysSent(sub, signal_value) ==
  [sub EXCEPT !.last_signal_value_client =
                Some([time |-> now, value |-> signal_value])]

AfterNotification(sub, signal_value) ==
  LET r == NotificationResult(sub, signal_value)
  IN  IF ~r.err /\ r.ok
        THEN [sub EXCEPT !.last_signal_value_client =
                           Some([time |-> now, value |-> signal_value])]
        ELSE sub

NotificationFrame(sub, signal_value) ==
  LET r == NotificationResult(sub, signal_value)
  IN  IF r.err
        THEN Some(Failure("subscription", None, sub.subscription_id,
                          BAD_REQUEST_FILTER_INVALID, unix_timestamp_ms))
        ELSE IF r.ok
          THEN Some(Success("subscription", None, sub.subscription_id,
                            Some(signal_value), unix_timestamp_ms))
          ELSE None

\* A notification that updates the actor and sends nothing
record_without_notification(id, sub, signal_value) ==
  /\ subs' = [subs EXCEPT ![id] = AfterNotification(sub, signal_value)]
  /\ UNCHANGED inbox

send_client_notification(id, sub, signal_value) ==
  /\ subs' = [subs EXCEPT ![id] = AfterNotification(sub, signal_value)]
  /\ inbox' = IF IsSome(NotificationFrame(sub, signal_value))
                THEN DoSendClient(inbox, sub.client_addr,
                                  Unwrap(NotificationFrame(sub, signal_value)))
                ELSE inbox

SubHandling(id, type) ==
  /\ id \in DOMAIN subs
  /\ subs[id].running
  /\ subq[id] # <<>>
  /\ Head(subq[id]).type = type

\* A subscription that never counts as interval based
HasNoInterval(sub) == FALSE

HasInterval(sub) == IsSome(sub.filters) /\ IsSome(Unwrap(sub.filters).interval)

\* Handler<NotifySubscriber> for Subscription
HandleNotifySubscriber(id) ==
  /\ SubHandling(id, "NotifySubscriber")
  /\ LET msg == Head(subq[id])
         sub == [subs[id] EXCEPT !.latest_signal_value = msg.signal_value]
     IN  IF HasInterval(sub)
           THEN /\ subs' = [subs EXCEPT ![id] = sub]
                /\ UNCHANGED inbox
           ELSE send_client_notification(id, sub, Unwrap(msg.signal_value))
  /\ subq' = [subq EXCEPT ![id] = Tail(@)]
  /\ UNCHANGED <<mq, engine, session, out, wire, consumers, now, counters, updates>>

\* Handler<StopSubscription> for Subscription: ctx.stop() ends the actor,
\* its mailbox and its interval
HandleStopSubscription(id) ==
  /\ SubHandling(id, "StopSubscription")
  /\ subs' = [subs EXCEPT ![id].running = FALSE, ![id].interval_handle = None]
  /\ subq' = [subq EXCEPT ![id] = <<>>]
  /\ UNCHANGED <<mq, engine, clients, consumers, now, counters, updates>>

\* The closure given to ctx.run_interval in Actor::started. The timer is
\* re-armed one period after its deadline, so a late tick is followed by
\* the next one without waiting a full period.
IntervalTick(id) ==
  /\ id \in DOMAIN subs
  /\ subs[id].running
  /\ IsSome(subs[id].interval_handle)
  /\ now >= Unwrap(subs[id].interval_handle)
  /\ LET sub == [subs[id] EXCEPT !.interval_handle =
                    Some(Unwrap(@) + IntervalPeriod(Unwrap(Unwrap(subs[id].filters).interval)))]
     IN  IF IsSome(sub.latest_signal_value)
           THEN send_client_notification(id, sub, Unwrap(sub.latest_signal_value))
           ELSE /\ subs' = [subs EXCEPT ![id] = sub]
                /\ UNCHANGED inbox
  /\ UNCHANGED <<mq, engine, subq, session, out, wire, consumers, now, counters, updates>>

\* ------------------------------------------------------------------ clock
\* Time passes: by a millisecond, or by a second
AdvanceClock ==
  /\ \/ now % MillisPerSec < MaxMillis /\ now' = now + 1
     \/ now \div MillisPerSec < MaxSeconds /\ now' = now + MillisPerSec
  /\ UNCHANGED <<mq, engine, actors, clients, consumers, counters, updates>>

\* --------------------------------------------------------- specifications
\* The paths clients name, and the casings the embedding application
\* publishes and registers them under
ClientPaths == {<<"a">>}
ProducerPaths == {<<"A">>, <<"b">>}
RecipientPaths == {<<"A">>}

ClientStep(S, P, F, V) ==
  \E s \in S :
    \/ \E p \in P, f \in F : ClientSubscribe(s, p, f)
    \/ \E id \in 1..MaxSubs : ClientUnsubscribe(s, id)
    \/ ClientUnsubscribeAll(s)
    \/ \E p \in P : ClientGet(s, p)
    \/ \E p \in P, v \in V : ClientSet(s, p, v)
    \/ ClientClose(s)
    \/ SessionDeliver(s)

ProducerStep(P, V) == \E p \in P, v \in V : set_signal(p, v)

ConsumerStep(P) ==
  \E c \in Consumers :
    \/ \E p \in P : add_set_recipient(p, c)
    \/ ConsumerStop(c)
    \/ \E result \in SetResults : ConsumerHandleSet(c, result)

SignalManagerStep ==
  \/ HandleUpdateSignal
  \/ HandleSubscribe
  \/ HandleUnsubscribe
  \/ HandleUnsubscribeAll
  \/ HandleGet
  \/ HandleSet
  \/ HandleAddSetRecipient

SubscriptionStep ==
  \E id \in DOMAIN subs :
    \/ HandleNotifySubscriber(id)
    \/ HandleStopSubscription(id)

\* Two sessions, paths in several casings, subscriptions without filters
Next ==
  \/ ClientStep(Sessions, ClientPaths, {None}, {JNum(0)})
  \/ ProducerStep(ProducerPaths, {JNum(0), JNum(1)})
  \/ ConsumerStep(RecipientPaths)
  \/ SignalManagerStep
  \/ SubscriptionStep

Spec == Init /\ [][Next]_vars

\* One session whose subscriptions carry no filter or a minChange filter,
\* and a signal that takes numbers and a string
RangeChoices ==
  {RangeFilter(None, None), RangeFilter(Some(1), None), RangeFilter(None, Some(1)),
   RangeFilter(Some(MaxValue), Some(1))}
FilterChoices ==
  {None, Some(MinChangeFilter(MaxValue))} \cup {Some(f) : f \in RangeChoices}

NextFilter ==
  \/ \E p \in ClientPaths, f \in FilterChoices : ClientSubscribe(1, p, f)
  \/ SessionDeliver(1)
  \/ ProducerStep(ClientPaths, Values)
  \/ HandleUpdateSignal
  \/ HandleSubscribe
  \/ \E id \in DOMAIN subs : HandleNotifySubscriber(id)

SpecFilter == Init /\ [][NextFilter]_vars

\* One session whose subscriptions carry no filter, an interval filter or
\* an interval and a minChange filter, and time that passes
TimedChoices ==
  {None, Some(IntervalFilter(1)),
   Some([IntervalFilter(1) EXCEPT !.min_change = Some(1)])}
TimedValues == {JNum(0), JNum(1), JStr}

NextTimed ==
  \/ \E p \in ClientPaths, f \in TimedChoices : ClientSubscribe(1, p, f)
  \/ SessionDeliver(1)
  \/ ProducerStep(ClientPaths, TimedValues)
  \/ HandleUpdateSignal
  \/ HandleSubscribe
  \/ \E id \in DOMAIN subs : HandleNotifySubscriber(id)
  \/ \E id \in DOMAIN subs : IntervalTick(id)
  \/ AdvanceClock

SpecTimed == Init /\ [][NextTimed]_vars

\* The text frames a client writes: every action under several casings of
\* its name, request ids that are integers, UUIDs, both or neither
GetNames == {"get", "Get", "GET"}
UnsubscribeAllNames == {"unsubscribeAll", "unsubscribeall"}
OtherNames == {"authorize", "GetMetadata", "subscribe"}
RequestIdTexts == {<<"0", "7">>, <<"0", "0", "7">>, <<"a", "0", "7">>, <<"z">>}
SubscriptionIdTexts == {<<"0", "0", "0">>, <<"7">>}
WireTexts ==
  {NotJson}
    \cup {TextFrame(tag, <<"7">>, <<>>, <<"a">>, None) :
            tag \in GetNames \cup UnsubscribeAllNames \cup OtherNames}
    \cup {TextFrame("get", rid, <<>>, <<"a">>, None) : rid \in RequestIdTexts}
    \cup {TextFrame("Unsubscribe", <<"7">>, sid, <<>>, None) :
            sid \in SubscriptionIdTexts}

NextWire ==
  \/ \E txt \in WireTexts : SessionHandleText(1, txt)
  \/ SessionDeliver(1)
  \/ HandleSubscribe
  \/ HandleUnsubscribe
  \/ HandleUnsubscribeAll
  \/ HandleGet

SpecWire == Init /\ [][NextWire]_vars

\* One session that subscribes with and without interval, unsubscribes and
\* closes while the clock runs
CancelChoices == {None, Some(IntervalFilter(1))}

NextCancel ==
  \/ \E p \in ClientPaths, f \in CancelChoices : ClientSubscribe(1, p, f)
  \/ \E id \in 1..MaxSubs : ClientUnsubscribe(1, id)
  \/ ClientUnsubscribeAll(1)
  \/ ClientClose(1)
  \/ SessionDeliver(1)
  \/ ProducerStep(ClientPaths, {JNum(0), JNum(1)})
  \/ HandleUpdateSignal
  \/ HandleSubscribe
  \/ HandleUnsubscribe
  \/ HandleUnsubscribeAll
  \/ \E id \in DOMAIN subs : HandleNotifySubscriber(id)
  \/ \E id \in DOMAIN subs : HandleStopSubscription(id)
  \/ \E id \in DOMAIN subs : IntervalTick(id)
  \/ AdvanceClock

SpecCancel == Init /\ [][NextCancel]_vars

\* One session that subscribes without interval, unsubscribes and closes
\* while updates arrive
DeliverChoices == {None, Some(MinChangeFilter(MaxValue))}
DeliverValues == {JNum(0), JNum(MaxValue)}

NextDeliver ==
  \/ \E p \in ClientPaths, f \in DeliverChoices : ClientSubscribe(1, p, f)
  \/ \E id \in 1..MaxSubs : ClientUnsubscribe(1, id)
  \/ ClientClose(1)
  \/ SessionDeliver(1)
  \/ ProducerStep(ClientPaths, DeliverValues)
  \/ HandleUpdateSignal
  \/ HandleSubscribe
  \/ HandleUnsubscribe
  \/ HandleUnsubscribeAll
  \/ \E id \in DOMAIN subs : HandleNotifySubscriber(id)
  \/ \E id \in DOMAIN subs : HandleStopSubscription(id)

SpecDeliver == Init /\ [][NextDeliver]_vars

\* A running actor handles the messages in its mailbox: the SignalManager,
\* every Subscription and the ClientSession are polled by the arbiter as
\* long as they have work
MailboxFairness ==
  /\ WF_vars(HandleUpdateSignal)
  /\ WF_vars(HandleSubscribe)
  /\ WF_vars(HandleUnsubscribe)
  /\ WF_vars(HandleUnsubscribeAll)
  /\ WF_vars(SessionDeliver(1))
  /\ \A id \in 1..MaxSubs : WF_vars(HandleNotifySubscriber(id))
  /\ \A id \in 1..MaxSubs : WF_vars(HandleStopSubscription(id))

SpecCancelFair == SpecCancel /\ MailboxFairness

SpecDeliverFair == SpecDeliver /\ MailboxFairness

\* ================================================================ claims
\* What a client has been sent, oldest first: the frames written to its
\* socket followed by those still in the mailbox of its session
Frames(s) == out[s] \o inbox[s]

IsNotification(f) == f.action = "subscription"
IsValueNotification(f) == f.action = "subscription" /\ f.ok
IsSubscribeSuccess(f, id) == f.action = "subscribe" /\ f.ok /\ f.subscriptionId = id

\* Case-insensitive equality of two paths, letter by letter
UpperChar(c) ==
  CASE c = "a" -> "A"
    [] c = "b" -> "B"
    [] OTHER -> c
SameLetter(c, d) == c = d \/ UpperChar(c) = d \/ c = UpperChar(d)
SamePath(p, q) == Len(p) = Len(q) /\ \A i \in 1..Len(p) : SameLetter(p[i], q[i])

\* The subscriptions minted for a session
MintedFor(s) == {id \in DOMAIN subs : subs[id].client_addr = s}

\* A subscription is cancelled once a StopSubscription was sent to its actor
Cancelled(id) ==
  /\ id \in DOMAIN subs
  /\ \/ ~subs[id].running
     \/ \E k \in 1..Len(subq[id]) : subq[id][k].type = "StopSubscription"

\* A step in which the SignalManager handles the head of its mailbox
EngineStep(type) == Handling(type) /\ mq' = Tail(mq)

\* The reply m is what the step sends to session c, and nothing else
Replies(c, m) ==
  IF session[c] = "open"
    THEN inbox' = [inbox EXCEPT ![c] = Append(@, m)]
    ELSE inbox' = inbox

\* C1: once the success response to Unsubscribe(id) is with the session, no
\* Subscription frame carrying id is written to that session after it.
C1_NoFrameAfterUnsubscribe ==
  \A s \in Sessions : \A i, j \in 1..Len(out[s]) :
    (i < j /\ out[s][i].action = "unsubscribe" /\ out[s][i].ok
           /\ IsNotification(out[s][j]))
      => out[s][j].subscriptionId # out[s][i].subscriptionId

\* C2: every Subscription frame (value or error) sent to a session comes
\* after the Subscribe success response that carries its subscriptionId.
C2_SubscribeResponseFirst ==
  \A s \in Sessions : \A j \in 1..Len(Frames(s)) :
    IsNotification(Frames(s)[j])
      => \E i \in 1..(j - 1) :
           IsSubscribeSuccess(Frames(s)[i], Frames(s)[j].subscriptionId)

C2_Witness ==
  \E s \in Sessions : \E i, j \in 1..Len(out[s]) :
    /\ i < j
    /\ IsNotification(out[s][j])
    /\ HasInterval(subs[out[s][j].subscriptionId])
    /\ IsSubscribeSuccess(out[s][i], out[s][j].subscriptionId)

\* C3: a Subscription frame sent to a session carries an id that a Subscribe
\* response returned to that session before, the id was minted for that
\* session, and a value frame carries a value published for the path of the
\* subscription with that id.
C3_FrameCarriesOwnId ==
  \A s \in Sessions : \A j \in 1..Len(Frames(s)) :
    LET f == Frames(s)[j]
        id == f.subscriptionId
    IN  IsNotification(f)
          => /\ \E i \in 1..(j - 1) : IsSubscribeSuccess(Frames(s)[i], id)
             /\ id \in MintedFor(s)
             /\ f.ok => \E k \in 1..Len(updates) :
                          /\ updates[k].value = Unwrap(f.value)
                          /\ SamePath(updates[k].path, subs[id].path)

C3_Witness ==
  \E s, t \in Sessions :
    /\ s # t
    /\ MintedFor(t) # {}
    /\ \E j \in 1..Len(out[s]) :
         /\ IsValueNotification(out[s][j])
         /\ out[s][j].subscriptionId \in MintedFor(s)

\* The UpdateSignals handled so far for a path, in any casing
UpdatesFor(p) == SelectSeq(updates, LAMBDA u : SamePath(u.path, p))

\* C4: Get(p) handled before any UpdateSignal for p replies invalid_path
\* (404) with the requestId; handled after one, it replies with the value of
\* the latest UpdateSignal for p handled before it.
C4_GetReturnsLatestUpdate ==
  [][EngineStep("Get") =>
       LET msg == Head(mq)
           ups == UpdatesFor(msg.path)
       IN  Replies(msg.client_addr,
             IF ups = <<>>
               THEN Failure("get", msg.request_id, 0,
                            [number |-> 404, reason |-> "invalid_path"], now)
               ELSE Success("get", msg.request_id, 0,
                            Some(ups[Len(ups)].value), now))]_vars

C4_Witness ==
  /\ Len(UpdatesFor(<<"a">>)) = 2
  /\ UpdatesFor(<<"a">>)[1].value # UpdatesFor(<<"a">>)[2].value
  /\ \E s \in Sessions : \E i \in 1..Len(out[s]) :
       /\ out[s][i].action = "get"
       /\ out[s][i].ok
       /\ out[s][i].value = Some(UpdatesFor(<<"a">>)[2].value)

\* A subscription that is registered and not cancelled
Live(id) == id \in DOMAIN subs /\ ~Cancelled(id)

\* C8: paths key state case-insensitively: an UpdateSignal reaches exactly
\* the live subscriptions whose path equals its path up to case, Get finds
\* the cache entry and Set finds the set recipient filed under any casing
\* of the path.
C8_PathsCaseInsensitive ==
  [][(mq # <<>> /\ mq' = Tail(mq)) =>
       LET msg == Head(mq)
           c == msg.client_addr
       IN  /\ msg.type = "UpdateSignal" =>
                \A id \in DOMAIN subs :
                  subq'[id] = IF Live(id) /\ SamePath(subs[id].path, msg.path)
                                THEN Append(subq[id], NotifySubscriber(Unwrap(msg.value)))
                                ELSE subq[id]
           /\ (msg.type = "Get" /\ session[c] = "open") =>
                (inbox'[c][Len(inbox'[c])].ok <=> UpdatesFor(msg.path) # <<>>)
           /\ (msg.type = "Set" /\ session[c] = "open") =>
                (inbox'[c][Len(inbox'[c])].error.reason = "invalid_path"
                   <=> ~\E key \in DOMAIN set_recipients : SamePath(key, msg.path))]_vars

C8_Witness ==
  \E s \in Sessions : \E j \in 1..Len(out[s]) :
    /\ IsValueNotification(out[s][j])
    /\ \A k \in 1..Len(updates) :
         updates[k].path # subs[out[s][j].subscriptionId].path

\* C9: Unsubscribe(id) from a session the id was not minted for replies
\* invalid_subscriptionId with the requestId and leaves the cache, the three
\* indexes and every subscription actor as they were.
C9_ForeignUnsubscribeRejected ==
  [][(EngineStep("Unsubscribe")
        /\ Head(mq).subscription_id \notin MintedFor(Head(mq).client_addr)) =>
       LET msg == Head(mq)
       IN  /\ UNCHANGED <<signal_cache, registry, subs, subq>>
           /\ Replies(msg.client_addr,
                Failure("unsubscribe", msg.request_id, msg.subscription_id,
                        [number |-> 404, reason |-> "invalid_subscriptionId"],
                        now))]_vars

C9_Witness ==
  \E s, t \in Sessions : \E i \in 1..Len(out[s]) : \E j \in 1..Len(out[t]) :
    /\ s # t
    /\ out[s][i].action = "unsubscribe"
    /\ ~out[s][i].ok
    /\ out[s][i].subscriptionId \in MintedFor(t)
    /\ IsValueNotification(out[t][j])
    /\ out[t][j].subscriptionId = out[s][i].subscriptionId

\* C10: Unsubscribe(id) for an id of the requester that was cancelled before
\* (by Unsubscribe or by UnsubscribeAll) replies invalid_subscriptionId and
\* changes no state.
C10_CancelledUnsubscribeRejected ==
  [][(EngineStep("Unsubscribe")
        /\ Head(mq).subscription_id \in MintedFor(Head(mq).client_addr)
        /\ Cancelled(Head(mq).subscription_id)) =>
       LET msg == Head(mq)
       IN  /\ UNCHANGED <<signal_cache, registry, subs, subq>>
           /\ Replies(msg.client_addr,
                Failure("unsubscribe", msg.request_id, msg.subscription_id,
                        [number |-> 404, reason |-> "invalid_subscriptionId"],
                        now))]_vars


\* The subscriptions whose only filter is minChange, and its threshold
MinChangeOnly(id) ==
  /\ id \in DOMAIN subs
  /\ IsSome(subs[id].filters)
  /\ IsSome(Unwrap(subs[id].filters).min_change)
  /\ ~IsSome(Unwrap(subs[id].filters).interval)
  /\ ~IsSome(Unwrap(subs[id].filters).range)
MinChangeOf(id) == Unwrap(Unwrap(subs[id].filters).min_change)

\* |a - b| of two non-negative integers
Distance(a, b) == IF a >= b THEN a - b ELSE b - a

\* The value frames sent to the owner of a subscription, oldest first
ValueFrames(id) ==
  SelectSeq(Frames(subs[id].client_addr),
            LAMBDA f : IsValueNotification(f) /\ f.subscriptionId = id)

\* C5: for a subscription whose only filter is minChange = k, two
\* consecutive delivered numbers v1, v2 are at least k apart, whether the
\* signal rose or fell.
C5_DeliveredValuesMinChangeApart ==
  \A id \in DOMAIN subs :
    MinChangeOnly(id) =>
      \A i \in 1..(Len(ValueFrames(id)) - 1) :
        LET v1 == Unwrap(ValueFrames(id)[i].value)
            v2 == Unwrap(ValueFrames(id)[i + 1].value)
        IN  (v1.k = "Number" /\ v2.k = "Number")
              => Distance(v2.n, v1.n) >= MinChangeOf(id)

\* C6: a subscription whose only filter is minChange = k delivers a number
\* iff it is the first update after subscribing or its distance to the last
\* delivered number is at least k.
C6_DeliveredIffFarFromLastDelivered ==
  [][\A id \in DOMAIN subs :
       (/\ MinChangeOnly(id)
        /\ SubHandling(id, "NotifySubscriber")
        /\ subq'[id] = Tail(subq[id])
        /\ Unwrap(Head(subq[id]).signal_value).k = "Number"
        /\ \/ ~IsSome(subs[id].last_signal_value_client)
           \/ Unwrap(subs[id].last_signal_value_client).value.k = "Number") =>
         LET v == Unwrap(Head(subq[id]).signal_value)
             last == subs[id].last_signal_value_client
             c == subs[id].client_addr
             due == \/ ~IsSome(last)
                    \/ Distance(v.n, Unwrap(last).value.n) >= MinChangeOf(id)
         IN  IF due
               THEN inbox'[c] = Append(inbox[c],
                      Success("subscription", None, id, Some(v), now))
               ELSE inbox' = inbox]_vars

\* C7: for a subscription with interval = T (milliseconds, on a clock that
\* does not run backwards) two value frames are stamped at least T apart,
\* whatever the updates and ticks.
C7_IntervalBetweenValueFrames ==
  \A id \in DOMAIN subs :
    HasInterval(subs[id]) =>
      \A i \in 1..(Len(ValueFrames(id)) - 1) :
        ValueFrames(id)[i + 1].timestamp - ValueFrames(id)[i].timestamp
          >= Unwrap(Unwrap(subs[id].filters).interval)

C7_Witness ==
  \E id \in DOMAIN subs :
    /\ HasInterval(subs[id])
    /\ Len(ValueFrames(id)) >= 2
    /\ Len(out[subs[id].client_addr]) >= 3


\* The ids a session index entry, the path index or the id index still hold
InSessionIndex(id) ==
  \E c \in DOMAIN addr_to_subscription_ids : Contains(addr_to_subscription_ids[c], id)
InPathIndex(id) ==
  \E key \in DOMAIN path_to_subscription_id : Contains(path_to_subscription_id[key], id)
InIdIndex(id) == Has(subscription_id_to_subscription, id)

\* C11: once the SignalManager has handled UnsubscribeAll for a session,
\* sent by the client or at session end, no subscription id of that session
\* is left in the id index, the path index or the session index.
C11_UnsubscribeAllClearsIndexes ==
  [][EngineStep("UnsubscribeAll") =>
       \A id \in MintedFor(Head(mq).client_addr) :
         ~InIdIndex(id)' /\ ~InPathIndex(id)' /\ ~InSessionIndex(id)']_vars

\* C12: Set replies invalid_path when no set recipient is registered for the
\* path, service_unavailable when the recipient does not take the message,
\* and a set success otherwise; the one reply carries the requestId.
C12_SetRepliesOnce ==
  [][EngineStep("Set") =>
       LET msg == Head(mq)
           keys == {key \in DOMAIN set_recipients : SamePath(key, msg.path)}
       IN  Replies(msg.client_addr,
             IF keys = {}
               THEN Failure("set", msg.request_id, 0,
                            [number |-> 404, reason |-> "invalid_path"], now)
               ELSE IF \E key \in keys : ~consumers[set_recipients[key]].alive
                      THEN Failure("set", msg.request_id, 0,
                                   [number |-> 503, reason |-> "service_unavailable"],
                                   now)
                      ELSE Success("set", msg.request_id, 0, None, now))]_vars

C12_Witness ==
  \E s \in Sessions : \E i \in 1..Len(out[s]) :
    /\ out[s][i].action = "set"
    /\ out[s][i].error.reason = "service_unavailable"
    /\ \E key \in DOMAIN set_recipients : ~consumers[set_recipients[key]].alive

\* C13: when the set recipient took a Set and its handler returned an error
\* code, the response to that request is an error carrying that code.
C13_RecipientFailureReported ==
  \A c \in Consumers :
    (IsSome(consumers[c].handled) /\ Unwrap(consumers[c].handled).result # NoError)
      => \A s \in Sessions : \A i \in 1..Len(Frames(s)) :
           (Frames(s)[i].action = "set"
              /\ Frames(s)[i].requestId = Unwrap(consumers[c].handled).request_id)
             => (~Frames(s)[i].ok
                   /\ Frames(s)[i].error = Unwrap(consumers[c].handled).result)

\* C14: Subscribe to a path no UpdateSignal was ever handled for is answered
\* with an error response that carries the requestId.
C14_SubscribeMissingPathRejected ==
  [][(EngineStep("Subscribe")
        /\ UpdatesFor(Head(mq).path) = <<>>
        /\ session[Head(mq).client_addr] = "open") =>
       LET msg == Head(mq)
           reply == inbox'[msg.client_addr][Len(inbox'[msg.client_addr])]
       IN  /\ Len(inbox'[msg.client_addr]) = Len(inbox[msg.client_addr]) + 1
           /\ reply.action = "subscribe"
           /\ ~reply.ok
           /\ reply.requestId = msg.request_id]_vars

\* C19: UnsubscribeAll is answered with an unsubscribeAll success carrying
\* the requestId iff it has a request id: the client's request gets exactly
\* one response, the one sent when a session stops gets none.
C19_UnsubscribeAllRepliesIffRequestId ==
  [][EngineStep("UnsubscribeAll") =>
       LET msg == Head(mq)
       IN  IF IsSome(msg.request_id)
             THEN Replies(msg.client_addr,
                    Success("unsubscribeAll", msg.request_id, 0, None, now))
             ELSE inbox' = inbox]_vars

C19_Witness ==
  \E s, t \in Sessions :
    /\ MintedFor(s) = {}
    /\ \E i \in 1..Len(out[s]) : out[s][i].action = "unsubscribeAll" /\ out[s][i].ok
    /\ session[t] = "stopped"
    /\ mq = <<>>
    /\ out[t] = <<>>

\* C20: the three subscription indexes agree in every state: an id is a key
\* of the id index iff the path index holds it under the key of its path and
\* the session index holds it under its session.
C20_IndexesAgree ==
  \A id \in DOMAIN subs :
    /\ InIdIndex(id) <=>
         /\ Has(path_to_subscription_id, PathKey(subs[id].path))
         /\ Contains(path_to_subscription_id[PathKey(subs[id].path)], id)
    /\ InIdIndex(id) <=>
         /\ Has(addr_to_subscription_ids, subs[id].client_addr)
         /\ Contains(addr_to_subscription_ids[subs[id].client_addr], id)


\* The frame a step writes to the socket of session s, if it writes one
Writes(s) == Len(wire'[s]) = Len(wire[s]) + 1
Written(s) == wire'[s][Len(wire'[s])]
IsBadRequest(w) ==
  w.action = "" /\ ~w.ok /\ w.error.number = 400 /\ w.requestId = None

\* C15: a text frame that does not decode as an action is answered with a
\* bad-request frame without requestId; the engine, the subscriptions and the
\* mailboxes stay as they were and the session stays open.
C15_DecodeFailureBadRequest ==
  [][\A txt \in WireTexts :
       (SessionHandleText(1, txt) /\ from_str(txt).err) =>
         /\ Writes(1)
         /\ IsBadRequest(Written(1))
         /\ UNCHANGED <<mq, engine, actors, inbox>>
         /\ session'[1] = "open"]_vars

C15_Witness ==
  \E i, j \in 1..Len(wire[1]) :
    /\ i < j
    /\ IsBadRequest(wire[1][i])
    /\ wire[1][j].action = "unsubscribeAll"
    /\ wire[1][j].ok

\* C16: authorize and getMetadata are answered with a 501 error response
\* that carries the request's requestId; the signal cache, the subscription
\* indexes and the set recipients stay as they were.
C16_UnsupportedActionsNotImplemented ==
  [][\A txt \in WireTexts :
       (/\ SessionHandleText(1, txt)
        /\ ~from_str(txt).err
        /\ from_str(txt).ok.type \in {"Authorize", "GetMetadata"}) =>
         /\ Writes(1)
         /\ Written(1).action =
              (IF from_str(txt).ok.type = "Authorize" THEN "authorize" ELSE "getMetadata")
         /\ ~Written(1).ok
         /\ Written(1).error.number = 501
         /\ IsSome(Written(1).requestId)
         /\ DecodeReqID(Unwrap(Written(1).requestId)) = DecodeReqID(txt.requestId)
         /\ UNCHANGED <<mq, signal_cache, registry, set_recipients>>]_vars

C16_Witness ==
  \E i, j \in 1..Len(wire[1]) :
    /\ wire[1][i].action = "authorize"
    /\ wire[1][i].error.number = 501
    /\ wire[1][j].action = "getMetadata"
    /\ wire[1][j].error.number = 501
    /\ wire[1][j].requestId = Some(<<"7">>)

\* The names responses are written with
CamelCaseNames == {"authorize", "getMetadata", "get", "set", "subscribe",
                   "subscription", "unsubscribe", "unsubscribeAll"}

\* C17: the action name of a request is matched in any casing: a well-formed
\* get or unsubscribeAll request under any casing of its name is dispatched
\* as that action, and every response is written with a camelCase name.
C17_ActionNamesCaseInsensitive ==
  [][\A txt \in WireTexts :
       (/\ SessionHandleText(1, txt)
        /\ txt.json
        /\ ~DecodeReqID(txt.requestId).err
        /\ txt.action \in GetNames \cup UnsubscribeAllNames) =>
         /\ Len(mq') = Len(mq) + 1
         /\ mq'[Len(mq')].type =
              (IF txt.action \in GetNames THEN "Get" ELSE "UnsubscribeAll")
         /\ \A i \in 1..Len(wire'[1]) :
              wire'[1][i].requestId # None => wire'[1][i].action \in CamelCaseNames]_vars

\* Strings that read as a UUID, and as an integer
HexChars == {"0", "1", "2", "3", "4", "5", "6", "7", "8", "9",
             "a", "b", "c", "d", "e", "f"}
DecimalChars == {"0", "1", "2", "3", "4", "5", "6", "7", "8", "9"}
IsUuidText(text) == Len(text) = UuidLen /\ \A i \in 1..Len(text) : text[i] \in HexChars
IsIntText(text) ==
  /\ text # <<>>
  /\ \A i \in 1..Len(text) : text[i] \in DecimalChars
  /\ DigitsValue(text, 10) <= IntMax

\* C18: ids round-trip through the wire: the string written for the request
\* id or the subscription id of a response decodes to that id; a request id
\* is read as a UUID if it is one, else as an integer if it is one, and
\* else the request is rejected.
C18_IdsRoundTrip ==
  [][/\ \A i \in 1..Len(wire'[1]) :
          LET f == out'[1][i]
              w == wire'[1][i]
          IN  /\ IsSome(f.requestId) =>
                   /\ IsSome(w.requestId)
                   /\ DecodeReqID(Unwrap(w.requestId)) = Ok(Unwrap(f.requestId))
              /\ f.subscriptionId # 0 =>
                   /\ IsSome(w.subscriptionId)
                   /\ DecodeSubscriptionID(Unwrap(w.subscriptionId)) = Ok(f.subscriptionId)
     /\ \A txt \in WireTexts :
          (SessionHandleText(1, txt) /\ txt.json /\ txt.action = "get") =>
            IF IsUuidText(txt.requestId)
              THEN /\ Len(mq') = Len(mq) + 1
                   /\ mq'[Len(mq')].request_id =
                        Some(ReqIDUUID(DigitsValue(txt.requestId, 16)))
              ELSE IF IsIntText(txt.requestId)
                THEN /\ Len(mq') = Len(mq) + 1
                     /\ mq'[Len(mq')].request_id =
                          Some(ReqIDInt(DigitsValue(txt.requestId, 10)))
                ELSE mq' = mq /\ Writes(1) /\ IsBadRequest(Written(1))]_vars

C18_Witness ==
  \E i, j, k \in 1..Len(wire[1]) :
    /\ out[1][i].requestId = Some(ReqIDUUID(7))
    /\ wire[1][i].requestId = Some(<<"0", "0", "7">>)
    /\ out[1][j].requestId = Some(ReqIDInt(7))
    /\ wire[1][j].requestId = Some(<<"7">>)
    /\ IsBadRequest(wire[1][k])


\* C22: the fan-out of an UpdateSignal is one step of the SignalManager: it
\* offers the value to exactly the subscriptions on its path whose Subscribe
\* was handled before it and that were not cancelled before it, and changes
\* no index; a subscription created later starts with an empty mailbox.
C22_FanOutAtomic ==
  [][/\ EngineStep("UpdateSignal") =>
          LET msg == Head(mq)
          IN  /\ DOMAIN subq' = DOMAIN subs
              /\ UNCHANGED <<registry, subs>>
              /\ \A id \in DOMAIN subs :
                   IF SamePath(subs[id].path, msg.path) /\ ~Cancelled(id)
                     THEN subq'[id] = Append(subq[id], NotifySubscriber(Unwrap(msg.value)))
                     ELSE subq'[id] = subq[id]
     /\ EngineStep("Subscribe") =>
          /\ \A id \in DOMAIN subs : subq'[id] = subq[id]
          /\ \A id \in DOMAIN subs' \ DOMAIN subs :
               subq'[id] = <<>> /\ subs'[id].latest_signal_value = None]_vars

C22_Witness ==
  \E id1, id2 \in DOMAIN subs :
    /\ id1 < id2
    /\ SamePath(subs[id1].path, subs[id2].path)
    /\ UpdatesFor(subs[id1].path) # <<>>
    /\ subs[id1].latest_signal_value # None
    /\ subs[id2].latest_signal_value = None
    /\ subq[id2] = <<>>
    /\ mq = <<>>

\* C24: a stopped session has no cleanup waiting: its UnsubscribeAll was
\* handled and the path index lists none of its subscriptions.
C24_ClosedOnlyAfterCleanup ==
  \A s \in Sessions :
    session[s] = "stopped" =>
      /\ ~\E k \in 1..Len(mq) :
            mq[k].type = "UnsubscribeAll" /\ mq[k].client_addr = s
      /\ \A id \in MintedFor(s) : ~InPathIndex(id)


\* A subscription whose filter sets interval
IntervalBased(id) ==
  subs[id].filters # None /\ Unwrap(subs[id].filters).interval # None

\* The Subscription frames for id among the frames sent to session s
FramesOf(s, id) ==
  SelectSeq(Frames(s), LAMBDA f : IsNotification(f) /\ f.subscriptionId = id)

\* C27: for a subscription whose filter sets interval, handling an update
\* only replaces latest_signal_value; frames come from interval ticks only;
\* a tick attempts delivery of latest_signal_value and does nothing while no
\* update has been seen.
C27_IntervalDeliversOnTickOnly ==
  [][\A id \in DOMAIN subs :
       IntervalBased(id) =>
         LET sub == subs[id]
             s == sub.client_addr
             latest == sub.latest_signal_value
         IN  /\ HandleNotifySubscriber(id) =>
                  /\ inbox' = inbox
                  /\ subs'[id] = [sub EXCEPT !.latest_signal_value =
                                               Head(subq[id]).signal_value]
             /\ Len(FramesOf(s, id)') > Len(FramesOf(s, id)) => IntervalTick(id)
             /\ (IntervalTick(id) /\ latest = None) =>
                  /\ inbox' = inbox
                  /\ subs'[id].last_signal_value_client = sub.last_signal_value_client
             /\ (IntervalTick(id) /\ latest # None) =>
                  LET r == matches(Unwrap(latest), sub.last_signal_value_client,
                                   sub.filters, now)
                  IN  /\ subs'[id].latest_signal_value = latest
                      /\ IF r.err
                           THEN /\ Len(inbox'[s]) = Len(inbox[s]) + 1
                                /\ ~inbox'[s][Len(inbox'[s])].ok
                           ELSE IF r.ok
                             THEN /\ Len(inbox'[s]) = Len(inbox[s]) + 1
                                  /\ inbox'[s][Len(inbox'[s])].value = latest
                                  /\ subs'[id].last_signal_value_client =
                                       Some([time |-> now, value |-> Unwrap(latest)])
                             ELSE inbox' = inbox]_vars

C27_Witness ==
  \E id \in DOMAIN subs :
    /\ IntervalBased(id)
    /\ \E i \in 1..Len(out[1]) :
         /\ IsValueNotification(out[1][i])
         /\ out[1][i].subscriptionId = id
         /\ out[1][i].value # subs[id].latest_signal_value
    /\ subs[id].latest_signal_value # None
    /\ subq[id] = <<>>

\* The least time since the last delivery at which the interval gate opens
GateMin(filters) ==
  CHOOSE d \in 0..MillisPerSec :
    /\ interval(d, Some([time |-> 0, value |-> JNum(0)]), filters)
    /\ \A e \in 0..(d - 1) : ~interval(e, Some([time |-> 0, value |-> JNum(0)]), filters)

\* C28: filters.interval means the same time in both uses: the period from
\* one tick of the interval task to the next is the least elapsed time the
\* interval gate asks for.
C28_IntervalUnitConsistent ==
  [][\A id \in DOMAIN subs :
       IntervalTick(id) =>
         Unwrap(subs'[id].interval_handle) - Unwrap(subs[id].interval_handle)
           = GateMin(Unwrap(subs[id].filters))]_vars


\* A step in which the actor of subscription id handles a NotifySubscriber
NotifyStep(id) ==
  /\ SubHandling(id, "NotifySubscriber")
  /\ subq'[id] = Tail(subq[id])
Candidate(id) == Unwrap(Head(subq[id]).signal_value)
LastDelivered(id) == subs[id].last_signal_value_client

\* The step sends frame f to the owner of subscription id and nothing else
SendsToOwner(id, f) ==
  inbox' = [inbox EXCEPT ![subs[id].client_addr] = Append(@, f)]

\* The filter of subscription id cannot be evaluated on the candidate
EvaluationFails(id) ==
  /\ subs[id].filters # None
  /\ LET filters == Unwrap(subs[id].filters)
     IN  \/ filters.range # None /\ Candidate(id).k # "Number"
         \/ /\ filters.min_change # None
            /\ LastDelivered(id) # None
            /\ \/ Candidate(id).k # "Number"
               \/ Unwrap(LastDelivered(id)).value.k # "Number"

\* C26: when the filter cannot be evaluated at delivery, the subscriber gets
\* a subscription error frame with filter_invalid and the subscriptionId,
\* the last delivered value stays, and the subscription stays registered
\* and running.
C26_FilterErrorFrame ==
  [][\A id \in DOMAIN subs :
       (NotifyStep(id) /\ EvaluationFails(id)) =>
         /\ SendsToOwner(id, Failure("subscription", None, id,
                                     [number |-> 400, reason |-> "filter_invalid"],
                                     now))
         /\ subs'[id].last_signal_value_client = LastDelivered(id)
         /\ subs'[id].running
         /\ UNCHANGED registry]_vars

C26_Witness ==
  \E id \in DOMAIN subs : \E i, j \in 1..Len(out[1]) :
    /\ i < j
    /\ out[1][i].subscriptionId = id
    /\ out[1][i].error.reason = "filter_invalid"
    /\ IsValueNotification(out[1][j])
    /\ out[1][j].subscriptionId = id

\* The change gate: nothing delivered yet, or a value other than the last
ChangeGate(id) ==
  LastDelivered(id) = None \/ Candidate(id) # Unwrap(LastDelivered(id)).value

\* C29: a value is delivered only if nothing was delivered yet or it differs
\* from the last delivered value; without filters it is delivered iff so;
\* two consecutive value frames of a subscription never carry equal values.
C29_ChangeGate ==
  [][\A id \in DOMAIN subs :
       /\ NotifyStep(id) =>
            LET delivered == SendsToOwner(id, Success("subscription", None, id,
                                                      Some(Candidate(id)), now))
            IN  /\ delivered => ChangeGate(id)
                /\ subs[id].filters = None =>
                     IF ChangeGate(id) THEN delivered ELSE inbox' = inbox
       /\ (\A i \in 1..(Len(ValueFrames(id)) - 1) :
             ValueFrames(id)[i].value # ValueFrames(id)[i + 1].value)']_vars

C29_Witness ==
  \E id \in DOMAIN subs :
    /\ subs[id].filters = None
    /\ Len(updates) = 2
    /\ updates[1].value = updates[2].value
    /\ subs[id].latest_signal_value = Some(updates[2].value)
    /\ subq[id] = <<>>
    /\ Len(ValueFrames(id)) = 1
    /\ inbox[1] = <<>>

\* A subscription whose only filter is a range
RangeOnly(id) ==
  /\ subs[id].filters # None
  /\ Unwrap(subs[id].filters).range # None
  /\ Unwrap(subs[id].filters).min_change = None
  /\ Unwrap(subs[id].filters).interval = None
RangeOf(id) == Unwrap(Unwrap(subs[id].filters).range)
InRange(n, range) ==
  /\ range.above = None \/ n >= Unwrap(range.above)
  /\ range.below = None \/ n <= Unwrap(range.below)

\* C30: under a range filter a number passes iff it is at least above and at
\* most below, each bound counting only when present; a candidate that is
\* not a number yields the filter_invalid error frame.
C30_RangeGate ==
  [][\A id \in DOMAIN subs :
       (NotifyStep(id) /\ RangeOnly(id)) =>
         IF Candidate(id).k # "Number"
           THEN SendsToOwner(id, Failure("subscription", None, id,
                                         [number |-> 400, reason |-> "filter_invalid"],
                                         now))
           ELSE IF InRange(Candidate(id).n, RangeOf(id)) /\ ChangeGate(id)
             THEN SendsToOwner(id, Success("subscription", None, id,
                                           Some(Candidate(id)), now))
             ELSE inbox' = inbox]_vars

C30_Witness ==
  \E id \in DOMAIN subs :
    /\ RangeOnly(id)
    /\ RangeOf(id).above # None
    /\ RangeOf(id).below # None
    /\ Len(ValueFrames(id)) = 1
    /\ Unwrap(ValueFrames(id)[1].value).n = Unwrap(RangeOf(id).above)
    /\ \E k \in 1..Len(updates) :
         updates[k].value.k = "Number" /\ ~InRange(updates[k].value.n, RangeOf(id))
    /\ subq[id] = <<>>
    /\ mq = <<>>
    /\ inbox[1] = <<>>

\* C21: an interval tick of a subscription the SignalManager has already
\* removed (StopSubscription sent, actor still running) is a no-op: it
\* sends no frame to any session and leaves the last delivered value alone.
C21_TickAfterRemovalIsNoOp ==
  [][\A id \in DOMAIN subs :
       (IntervalTick(id) /\ Cancelled(id)) =>
         /\ inbox' = inbox
         /\ subs'[id].last_signal_value_client = LastDelivered(id)]_vars

\* The actor of subscription id is stopped and its interval task cancelled
ActorStopped(id) ==
  /\ id \in DOMAIN subs
  /\ ~subs[id].running
  /\ subs[id].interval_handle = None
  /\ ~ENABLED IntervalTick(id)

\* C25: once a session has ended, each of its subscription actors is
\* eventually stopped for good with its interval task cancelled, so that no
\* tick of it can fire any more; this includes subscriptions made after an
\* earlier UnsubscribeAll of the client.
C25_SessionEndStopsActors ==
  \A id \in 1..MaxSubs :
    (id \in DOMAIN subs /\ session[subs[id].client_addr] = "stopped")
      ~> [] ActorStopped(id)

\* The session has ended; it had issued UnsubscribeAll and then subscribed
\* with an interval, and the actor of that later subscription is stopped
C25_Witness ==
  /\ session[1] = "stopped"
  /\ \E id \in DOMAIN subs :
       /\ subs[id].client_addr = 1
       /\ IntervalBased(id)
       /\ ActorStopped(id)
       /\ \E i, j \in 1..Len(out[1]) :
            /\ i < j
            /\ out[1][i].action = "unsubscribeAll" /\ out[1][i].ok
            /\ IsSubscribeSuccess(out[1][j], id)

\* The value frames for subscription id written to its session, oldest first
Delivered(id) ==
  SelectSeq(out[subs[id].client_addr],
            LAMBDA f : IsValueNotification(f) /\ f.subscriptionId = id)

\* The next message of the actor of subscription id is an update with value
\* v that passes its filter against the last delivered value
Passes(id, v) ==
  /\ subq[id] # <<>>
  /\ Head(subq[id]) = NotifySubscriber(v)
  /\ LET r == NotificationResult(subs[id], v) IN ~r.err /\ r.ok

\* The same, for a subscription without interval that is not cancelled and
\* whose session is open
PassingHead(id, v) ==
  /\ Live(id)
  /\ ~IntervalBased(id)
  /\ session[subs[id].client_addr] = "open"
  /\ Passes(id, v)

\* C23: an UpdateSignal handled by the SignalManager is queued once for each
\* subscription on its path that has no interval and is not cancelled; the
\* actor gets to every queued update; an update that passes the filter
\* against the last delivered value sends one value frame carrying it, and
\* that frame is eventually written to the session, after the frames sent
\* before it, unless the subscription is cancelled or the session ends
\* first.  Value frames of such a subscription come from nowhere else.
C23_UpdateEventuallyDelivered ==
  /\ [][/\ EngineStep("UpdateSignal") =>
             \A id \in DOMAIN subs :
               (Live(id) /\ ~IntervalBased(id)
                  /\ SamePath(subs[id].path, Head(mq).path)) =>
                 subq'[id] = Append(subq[id], NotifySubscriber(Unwrap(Head(mq).value)))
        /\ \A id \in DOMAIN subs : \A v \in DeliverValues :
             (NotifyStep(id) /\ PassingHead(id, v)) =>
               /\ SendsToOwner(id, Success("subscription", None, id, Some(v), now))
               /\ subs'[id].last_signal_value_client = Some([time |-> now, value |-> v])
        /\ \A id \in DOMAIN subs :
             (~IntervalBased(id) /\ ValueFrames(id)' # ValueFrames(id)) =>
               \/ /\ NotifyStep(id)
                  /\ \E v \in DeliverValues : Passes(id, v)
                  /\ Len(ValueFrames(id)') = Len(ValueFrames(id)) + 1
               \/ session'[subs[id].client_addr] = "stopped"]_vars
  /\ \A id \in 1..MaxSubs :
       (id \in DOMAIN subs /\ subq[id] # <<>>) ~> (id \in DOMAIN subs /\ subq[id] = <<>>)
  /\ \A id \in 1..MaxSubs : \A v \in DeliverValues : \A n \in 0..(MaxEvents - 1) :
       (PassingHead(id, v) /\ Len(ValueFrames(id)) = n)
         ~> /\ id \in DOMAIN subs
            /\ \/ /\ Len(Delivered(id)) > n
                  /\ Delivered(id)[n + 1].value = Some(v)
               \/ Cancelled(id)
               \/ session[subs[id].client_addr] = "stopped"

\* Two updates that passed the filter of a subscription without interval
\* were written to its open session, one frame each, in their order
C23_Witness ==
  \E id \in DOMAIN subs :
    /\ Live(id)
    /\ ~IntervalBased(id)
    /\ session[subs[id].client_addr] = "open"
    /\ Len(UpdatesFor(subs[id].path)) = 2
    /\ Len(Delivered(id)) = 2
    /\ Delivered(id)[1].value = Some(UpdatesFor(subs[id].path)[1].value)
    /\ Delivered(id)[2].value = Some(UpdatesFor(subs[id].path)[2].value)
    /\ subq[id] = <<>>

\* The result of the filter of subscription id on value v, as
\* send_client_notification would see it now
ResultOn(id, v) == NotificationResult(subs[id], v)

\* C31: the last delivered value of a subscription changes only in a step
\* that sends a value frame for that subscription to its session, and then
\* holds the value and the time of that frame; an update skipped by the
\* filter, an evaluation error and an update buffered for an interval
\* subscription leave it as it was.
C31_LastDeliveredFollowsFrames ==
  [][\A id \in DOMAIN subs :
       LET s == subs[id].client_addr
       IN  /\ subs'[id].last_signal_value_client # LastDelivered(id) =>
                \E f \in {inbox'[s][k] : k \in 1..Len(inbox'[s])} :
                  /\ inbox' = [inbox EXCEPT ![s] = Append(@, f)]
                  /\ IsValueNotification(f)
                  /\ f.subscriptionId = id
                  /\ subs'[id].last_signal_value_client =
                       Some([time |-> f.timestamp, value |-> Unwrap(f.value)])
           /\ (NotifyStep(id) /\ IntervalBased(id)) =>
                subs'[id].last_signal_value_client = LastDelivered(id)
           /\ (NotifyStep(id) /\ ~IntervalBased(id)
                 /\ LET r == ResultOn(id, Candidate(id)) IN r.err \/ ~r.ok) =>
                subs'[id].last_signal_value_client = LastDelivered(id)
           /\ (IntervalTick(id) /\ subs[id].latest_signal_value # None
                 /\ LET r == ResultOn(id, Unwrap(subs[id].latest_signal_value))
                    IN  r.err \/ ~r.ok) =>
                subs'[id].last_signal_value_client = LastDelivered(id)]_vars

\* A value was delivered for an interval subscription, and a later update
\* is buffered without having replaced the last delivered value
C31_Witness ==
  \E id \in DOMAIN subs :
    /\ IntervalBased(id)
    /\ LastDelivered(id) # None
    /\ subs[id].latest_signal_value # None
    /\ Unwrap(subs[id].latest_signal_value) # Unwrap(LastDelivered(id)).value
    /\ Len(ValueFrames(id)) = 1
    /\ ValueFrames(id)[1].value = Some(Unwrap(LastDelivered(id)).value)
    /\ ValueFrames(id)[1].timestamp = Unwrap(LastDelivered(id)).time
    /\ subq[id] = <<>>

\* The request numbers of the requests of session s waiting in the mailbox
\* of the SignalManager, and of the responses sent to s, oldest first; the
\* sessions number their requests in the order they send them
Pending(s) ==
  LET waiting == SelectSeq(mq, LAMBDA m : m.client_addr = s /\ m.request_id # None)
  IN  [k \in 1..Len(waiting) |-> Unwrap(waiting[k].request_id).id]
Answered(s) ==
  LET replies == SelectSeq(Frames(s), LAMBDA f : f.requestId # None)
  IN  [k \in 1..Len(replies) |-> Unwrap(replies[k].requestId).id]
Increasing(seq) == \A i, j \in 1..Len(seq) : i < j => seq[i] < seq[j]

\* C32: the SignalManager takes the requests of a session in the order the
\* session sent them: it always handles the oldest message of its mailbox,
\* the requests of a session wait in the order sent, and the responses to a
\* session were produced in the order of its requests, before the requests
\* still waiting.
C32_SessionRequestsInOrder ==
  /\ [] \A s \in Sessions : Increasing(Answered(s) \o Pending(s))
  /\ [][mq' # mq => \/ mq # <<>> /\ mq' = Tail(mq)
                    \/ /\ Len(mq') = Len(mq) + 1
                       /\ SubSeq(mq', 1, Len(mq)) = mq]_vars
  /\ [][\A s \in Sessions :
          Answered(s)' # Answered(s) =>
            \/ session'[s] = "stopped"
            \/ /\ mq # <<>> /\ mq' = Tail(mq)
               /\ Head(mq).client_addr = s
               /\ Answered(s)' = Append(Answered(s), Unwrap(Head(mq).request_id).id)]_vars

\* Session 1 got the responses to two requests of different kinds, and a
\* request session 2 sent between them was answered too
C32_Witness ==
  \E i, j \in 1..Len(out[1]) : \E k \in 1..Len(out[2]) :
    /\ i < j
    /\ out[1][i].requestId # None /\ out[1][j].requestId # None
    /\ out[2][k].requestId # None
    /\ out[1][i].action # out[1][j].action
    /\ Unwrap(out[1][i].requestId).id < Unwrap(out[2][k].requestId).id
    /\ Unwrap(out[2][k].requestId).id < Unwrap(out[1][j].requestId).id

\* C33: a path that has a cache entry keeps one: no step removes a key of
\* the cache, every path of a handled UpdateSignal has an entry, and a Get
\* for a path with a handled UpdateSignal is answered with a value, never
\* with invalid_path, whatever was handled in between.
C33_CacheEntriesStay ==
  /\ [][\A key \in DOMAIN signal_cache : key \in DOMAIN signal_cache']_vars
  /\ [] \A i \in 1..Len(updates) : Has(signal_cache, PathKey(updates[i].path))
  /\ [][(EngineStep("Get") /\ UpdatesFor(Head(mq).path) # <<>>
           /\ session[Head(mq).client_addr] = "open") =>
          LET c == Head(mq).client_addr
              reply == inbox'[c][Len(inbox'[c])]
          IN  /\ Len(inbox'[c]) = Len(inbox[c]) + 1
              /\ reply.action = "get"
              /\ reply.ok
              /\ reply.error = NoError
              /\ reply.value # None]_vars

\* A Get answered with a value after the UnsubscribeAll of the same session
C33_Witness ==
  /\ \E i, j \in 1..Len(out[1]) :
       /\ i < j
       /\ out[1][i].action = "unsubscribeAll"
       /\ out[1][j].action = "get" /\ out[1][j].ok
  /\ UpdatesFor(<<"a">>) # <<>>

\* C34: every id listed in the session index is a key of the id index, so an
\* Unsubscribe that passes the ownership check finds the subscription; each
\* Unsubscribe handled for an open session sends it exactly one response
\* with its requestId and subscriptionId: the success or
\* invalid_subscriptionId.
C34_UnsubscribeRepliesOnce ==
  /\ [] \A s \in DOMAIN addr_to_subscription_ids :
          \A id \in Elems(addr_to_subscription_ids[s]) :
            Has(subscription_id_to_subscription, id)
  /\ [][(EngineStep("Unsubscribe") /\ session[Head(mq).client_addr] = "open") =>
          LET msg == Head(mq)
              c == msg.client_addr
          IN  \/ inbox' = [inbox EXCEPT ![c] =
                             Append(@, Success("unsubscribe", msg.request_id,
                                               msg.subscription_id, None, now))]
              \/ inbox' = [inbox EXCEPT ![c] =
                             Append(@, Failure("unsubscribe", msg.request_id,
                                               msg.subscription_id,
                                               [number |-> 404,
                                                reason |-> "invalid_subscriptionId"],
                                               now))]]_vars

\* A session unsubscribed the same subscription twice and was answered
\* twice: with the success, then with invalid_subscriptionId
C34_Witness ==
  \E s \in Sessions : \E i, j \in 1..Len(out[s]) :
    /\ i < j
    /\ out[s][i].action = "unsubscribe" /\ out[s][i].ok
    /\ out[s][j].action = "unsubscribe" /\ ~out[s][j].ok
    /\ out[s][j].subscriptionId = out[s][i].subscriptionId
    /\ out[s][j].requestId # out[s][i].requestId
    /\ mq = <<>>

\* A request of session s is still on its way through the SignalManager:
\* it waits in the mailbox of the SignalManager, or its response waits in
\* the mailbox of the session
OnItsWay(s) ==
  \/ \E k \in 1..Len(mq) : mq[k].client_addr = s /\ mq[k].request_id # None
  \/ \E k \in 1..Len(inbox[s]) : inbox[s][k].requestId # None

\* C35: responses are written to a client in the order of its requests: the
\* session writes a response of its own (not implemented, bad request) only
\* when no earlier request of the session is still on its way through the
\* SignalManager.
C35_ResponsesInRequestOrder ==
  [][\A txt \in WireTexts :
       (SessionHandleText(1, txt) /\ Writes(1)) => ~OnItsWay(1)]_vars

\* a is b with some elements left out
RECURSIVE IsSubsequence(_, _)
IsSubsequence(a, b) ==
  IF a = <<>> THEN TRUE
  ELSE IF b = <<>> THEN FALSE
  ELSE IF Head(a) = Head(b) THEN IsSubsequence(Tail(a), Tail(b))
  ELSE IsSubsequence(a, Tail(b))

\* The values sent to the session for subscription id, followed by the
\* values waiting in the mailbox of its actor; the values of the
\* UpdateSignals handled for its path
Trail(id) ==
  LET waiting == SelectSeq(subq[id], LAMBDA m : m.type = "NotifySubscriber")
  IN  [k \in 1..Len(ValueFrames(id)) |-> Unwrap(ValueFrames(id)[k].value)]
        \o [k \in 1..Len(waiting) |-> Unwrap(waiting[k].signal_value)]
Published(p) == [k \in 1..Len(UpdatesFor(p)) |-> UpdatesFor(p)[k].value]

\* C36: for a subscription without interval, the values delivered, followed
\* by the values still waiting for its actor, are a subsequence of the
\* values of the UpdateSignals handled for its path, in their order; a new
\* subscription starts with no frame and an empty mailbox, so these are
\* updates handled after its Subscribe; a value frame is added only by the
\* actor handling the oldest waiting update, and carries its value.
C36_DeliveredIsSubsequence ==
  /\ [] \A id \in DOMAIN subs :
          ~IntervalBased(id) => IsSubsequence(Trail(id), Published(subs[id].path))
  /\ [][EngineStep("Subscribe") =>
          \A id \in DOMAIN subs' \ DOMAIN subs : Trail(id)' = <<>>]_vars
  /\ [][\A id \in DOMAIN subs :
          (~IntervalBased(id) /\ ValueFrames(id)' # ValueFrames(id)
             /\ session'[subs[id].client_addr] = "open") =>
            /\ NotifyStep(id)
            /\ Len(ValueFrames(id)') = Len(ValueFrames(id)) + 1
            /\ ValueFrames(id)'[Len(ValueFrames(id)')].value = Some(Candidate(id))
            /\ Trail(id)' = Trail(id)]_vars

\* Of two different updates handled for the path of a subscription, only
\* the second, handled after the Subscribe, was delivered
C36_Witness ==
  \E id \in DOMAIN subs :
    /\ ~IntervalBased(id)
    /\ Len(Published(subs[id].path)) = 2
    /\ Published(subs[id].path)[1] # Published(subs[id].path)[2]
    /\ Len(Delivered(id)) = 1
    /\ Delivered(id)[1].value = Some(Published(subs[id].path)[2])
    /\ subq[id] = <<>>
    /\ mq = <<>>

\* C37: Subscribe does not replay the cache: handling it sends the subscribe
\* response only and starts the subscription without a last delivered
\* value, whatever the cache holds; no Subscription frame exists for a
\* subscription whose actor has not seen an update; and the first update
\* its actor handles passes the change gate, also when it equals the cached
\* value: without a range filter it is delivered.
C37_NoReplayOnSubscribe ==
  /\ [][EngineStep("Subscribe") =>
          LET msg == Head(mq)
          IN  /\ \A id \in DOMAIN subs' \ DOMAIN subs :
                   /\ subs'[id].last_signal_value_client = None
                   /\ subs'[id].latest_signal_value = None
                   /\ subq'[id] = <<>>
                   /\ Replies(msg.client_addr,
                              Success("subscribe", msg.request_id, id, None, now))
              /\ \A id \in DOMAIN subs : subq'[id] = subq[id]]_vars
  /\ [] \A id \in DOMAIN subs :
          subs[id].latest_signal_value = None =>
            /\ FramesOf(subs[id].client_addr, id) = <<>>
            /\ LastDelivered(id) = None
  /\ [][\A id \in DOMAIN subs :
          (/\ NotifyStep(id)
           /\ ~IntervalBased(id)
           /\ LastDelivered(id) = None
           /\ subs[id].filters # None => Unwrap(subs[id].filters).range = None) =>
            /\ SendsToOwner(id, Success("subscription", None, id,
                                        Some(Candidate(id)), now))
            /\ subs'[id].last_signal_value_client =
                 Some([time |-> now, value |-> Candidate(id)])]_vars

\* A subscription made while the cache held a value for its path: nothing
\* was sent for it but the subscribe response, and the first update it is
\* offered repeats the cached value
C37_Witness ==
  \E id \in DOMAIN subs :
    /\ ~IntervalBased(id)
    /\ Len(UpdatesFor(subs[id].path)) = 2
    /\ UpdatesFor(subs[id].path)[1].value = UpdatesFor(subs[id].path)[2].value
    /\ signal_cache[PathKey(subs[id].path)] = UpdatesFor(subs[id].path)[1].value
    /\ subq[id] = <<NotifySubscriber(UpdatesFor(subs[id].path)[2].value)>>
    /\ subs[id].latest_signal_value = None
    /\ FramesOf(subs[id].client_addr, id) = <<>>
    /\ \E k \in 1..Len(out[subs[id].client_addr]) :
         IsSubscribeSuccess(out[subs[id].client_addr][k], id)

\* The step leaves every session but a, and every subscription not made by
\* a, as they were: the actors, their mailboxes, their place in the three
\* indexes, and the frames sent and written to the other sessions
OthersUntouched(a) ==
  /\ \A id \in DOMAIN subs :
       subs[id].client_addr # a =>
         /\ subs'[id] = subs[id]
         /\ subq'[id] = subq[id]
         /\ InSessionIndex(id)' = InSessionIndex(id)
         /\ InPathIndex(id)' = InPathIndex(id)
         /\ InIdIndex(id)' = InIdIndex(id)
  /\ \A b \in Sessions \ {a} :
       /\ session'[b] = session[b]
       /\ inbox'[b] = inbox[b]
       /\ out'[b] = out[b]
       /\ GetOrEmpty(addr_to_subscription_ids, b)' = GetOrEmpty(addr_to_subscription_ids, b)

\* The subscriptions the step takes out of an index or sends a
\* StopSubscription to
RemovedByStep ==
  {id \in DOMAIN subs :
     \/ InSessionIndex(id) /\ ~InSessionIndex(id)'
     \/ InPathIndex(id) /\ ~InPathIndex(id)'
     \/ InIdIndex(id) /\ ~InIdIndex(id)'
     \/ subq'[id] # subq[id]}

\* C38: what session A does to its subscriptions is invisible to the other
\* sessions: sending Unsubscribe or UnsubscribeAll, closing, and the
\* SignalManager handling A's Unsubscribe, UnsubscribeAll or cleanup change
\* nothing of another session or of its subscriptions, and remove only
\* subscriptions that A's own Subscribe requests created.
C38_SessionsIsolated ==
  /\ [][\A a \in Sessions :
          (\/ ClientClose(a)
           \/ ClientUnsubscribeAll(a)
           \/ \E id \in 1..MaxSubs : ClientUnsubscribe(a, id)) =>
            /\ OthersUntouched(a)
            /\ UNCHANGED <<engine, actors, updates>>
            /\ SubSeq(mq', 1, Len(mq)) = mq]_vars
  /\ [][(EngineStep("Unsubscribe") \/ EngineStep("UnsubscribeAll")) =>
          /\ OthersUntouched(Head(mq).client_addr)
          /\ RemovedByStep \subseteq MintedFor(Head(mq).client_addr)
          /\ UNCHANGED <<signal_cache, set_recipients, subs, updates>>]_vars

\* Two sessions subscribed to one path; one of them ended and its
\* subscription was stopped, the subscription of the other is still
\* registered and running
C38_Witness ==
  \E a, b \in Sessions : \E ida \in MintedFor(a), idb \in MintedFor(b) :
    /\ a # b
    /\ session[a] = "stopped" /\ session[b] = "open"
    /\ SamePath(subs[ida].path, subs[idb].path)
    /\ ~subs[ida].running /\ ~InPathIndex(ida)
    /\ subs[idb].running /\ Live(idb)
    /\ InSessionIndex(idb) /\ InPathIndex(idb) /\ InIdIndex(idb)
    /\ mq = <<>>

\* C39: handling a Get or a Set leaves the signal cache, the three
\* subscription indexes, the set recipients and every subscription actor
\* with its mailbox as they were; the response to a Get is read from the
\* cache alone, so a Set, also a successful one, does not change what the
\* next Get of the path returns.
C39_GetAndSetReadOnly ==
  /\ [][(EngineStep("Get") \/ EngineStep("Set")) =>
          UNCHANGED <<signal_cache, registry, set_recipients, subs, subq, updates>>]_vars
  /\ [][EngineStep("Get") =>
          LET msg == Head(mq)
          IN  Replies(msg.client_addr,
                IF Has(signal_cache, PathKey(msg.path))
                  THEN Success("get", msg.request_id, 0,
                               Some(signal_cache[PathKey(msg.path)]), now)
                  ELSE Failure("get", msg.request_id, 0,
                               [number |-> 404, reason |-> "invalid_path"], now))]_vars

\* A session's Set was accepted and handed to the recipient; its next Get of
\* the path still finds no value
C39_Witness ==
  \E s \in Sessions : \E i, j \in 1..Len(out[s]) :
    /\ i < j
    /\ out[s][i].action = "set" /\ out[s][i].ok
    /\ out[s][j].action = "get" /\ ~out[s][j].ok
    /\ out[s][j].error.number = 404
    /\ signal_cache = <<>>
    /\ \E c \in Consumers : Len(consumers[c].mailbox) + Len(consumers[c].handled) = 1

\* The last delivered value of subscription id is not a number
LastNotNumber(id) ==
  LastDelivered(id) # None /\ Unwrap(LastDelivered(id)).value.k # "Number"

\* C40: a subscription with a minChange filter accepts a first value that is
\* not a number; from then on its last delivered value stays that value,
\* every update its actor handles sends a filter_invalid error frame and no
\* value frame: a value frame that is not a number is the last value frame
\* of the subscription.
C40_StuckAfterNonNumber ==
  /\ [][\A id \in DOMAIN subs :
          (NotifyStep(id) /\ MinChangeOnly(id) /\ LastDelivered(id) = None
             /\ Candidate(id).k # "Number") =>
            /\ SendsToOwner(id, Success("subscription", None, id,
                                        Some(Candidate(id)), now))
            /\ LastNotNumber(id)']_vars
  /\ [][\A id \in DOMAIN subs :
          (MinChangeOnly(id) /\ LastNotNumber(id)) =>
            /\ subs'[id].last_signal_value_client = LastDelivered(id)
            /\ NotifyStep(id) =>
                 SendsToOwner(id, Failure("subscription", None, id,
                                          [number |-> 400, reason |-> "filter_invalid"],
                                          now))]_vars
  /\ [] \A id \in DOMAIN subs :
          MinChangeOnly(id) =>
            \A i, j \in 1..Len(ValueFrames(id)) :
              i < j => Unwrap(ValueFrames(id)[i].value).k = "Number"

\* A minChange subscription delivered a value that is not a number and
\* answered the next update, a number, with an error frame
C40_Witness ==
  \E id \in DOMAIN subs :
    /\ MinChangeOnly(id)
    /\ LastNotNumber(id)
    /\ subs[id].latest_signal_value # None
    /\ Unwrap(subs[id].latest_signal_value).k = "Number"
    /\ Len(FramesOf(1, id)) = 2
    /\ Len(out[1]) = 3
    /\ IsValueNotification(out[1][2])
    /\ out[1][2].value = Some(Unwrap(LastDelivered(id)).value)
    /\ ~out[1][3].ok
    /\ out[1][3].error.reason = "filter_invalid"
    /\ out[1][3].subscriptionId = id

====
